---- MODULE Spec2Model ----
(***************************************************************************)
(* Model of the kalshibot execution layer: Portfolio (risk gate, sizing,   *)
(* kill switch, sync), Executor (two-leg and multi-leg order coordination) *)
(* and the part of the Orchestrator that builds them and calls them.       *)
(* Money is in integer cents.  The exchange and the database are the       *)
(* environment: an exchange call or a database call may raise.             *)
(***************************************************************************)
EXTENDS Integers, Sequences, FiniteSets, TLC

\* ------------------------------------------------------------------------
\* Bounds of the model
\* ------------------------------------------------------------------------
MaxPolls == 2
MaxTrades == 4
MaxFills == 1
MaxDay == 1
Depth == 2
MaxLegs == 2
MaxRels == 2
MaxMembers == 3
MaxPasses == 2
MaxBatches == 2
MaxProposals == 2
\* refreshes of the market cache, the one of start() included
MaxRefresh == 3
\* opportunities of one detection cycle, executions followed between two syncs
MaxOpps == 2
MaxStarted == 3
\* seconds of the orchestrator's clock that are followed
MaxNow == 6
\* markets in one batch of upserts (BATCH_SIZE, scaled to pages of one or two)
BatchLen == 2

\* ------------------------------------------------------------------------
\* Program constants (Portfolio.__init__ defaults), money in cents
\* ------------------------------------------------------------------------
max_risk_per_trade_pct == 2
max_daily_loss == 5000
max_open_positions == 10
max_contracts_per_trade == 50
\* KalshiClient._max_retries
max_retries == 3
\* datetime.min, the first value of every timer of the Orchestrator
DatetimeMin == -100
\* detector.py and the trading configuration read by Orchestrator._tick
MIN_MAGNITUDE == 2
SOFT_THRESHOLD == 8
DEFAULT_DEPTH == 20
fee_safety_multiplier == 2
min_score_threshold == 50000

\* ------------------------------------------------------------------------
\* Inputs
\* ------------------------------------------------------------------------
\* Opportunities as the detector emits them (id assigned by insert_opportunity).
Opps == {1, 2}

Opportunity(o) ==
  IF o = 1
  THEN [id |-> 1, signal |-> "BUY_SUPERSET_SELL_SUBSET", magnitude |-> 10,
        legs |-> << [ticker |-> "SUP", side |-> "buy", price |-> 50, depth |-> Depth],
                    [ticker |-> "SUB", side |-> "sell", price |-> 60, depth |-> Depth] >>]
  ELSE [id |-> 2, signal |-> "BUY_ALL_PARTITION", magnitude |-> 40,
        legs |-> << [ticker |-> "PA", side |-> "buy", price |-> 30, depth |-> Depth],
                    [ticker |-> "PB", side |-> "buy", price |-> 30, depth |-> Depth] >>]

\* Values the exchange reports to sync(): balance in cents, number of positions.
Balances == {0, 10000}
PositionCounts == {0, max_open_positions}

\* Arguments of record_fill: a buy of 100 contracts at 50 cents without fees (it
\* costs exactly max_daily_loss) and a sell of 100 at 50 cents with the taker fee.
FillArgs == { [action |-> "buy", price |-> 50, count |-> 100, fees |-> 0],
              [action |-> "sell", price |-> 50, count |-> 100, fees |-> 175] }

NoDate == -1
\* a NULL column of a database row
NULL == -1

VARIABLES
  \* Portfolio instance
  balance, daily_pnl, open_positions, kill_switch, last_pnl_date,
  \* persistence
  portfolio_state, opp_status, trades,
  \* environment
  today, exch,
  \* Executor instance and the frame of execute_opportunity
  dry_run, pc, cur, count, orders, idx, filled_count, polls,
  filled, unfilled, success, result,
  \* bookkeeping of the verification
  preflight, startStatus, startTrades, apiCalls, dbRaised, killLatched, nFills,
  \* argument and returned value of the function or task under study
  arg, ret,
  \* Orchestrator: the running flag, the position in _tick, the timers whose
  \* interval has elapsed, the seconds since _last_ingest (2: two or more)
  running, tpc, elapsed, ingest_age,
  \* bookkeeping of one tick: tasks due, run and raised; a signal was received
  due, ran, raised, signalled,
  \* tables relationships (rows in insertion order, last id given) and markets
  relationships, rel_seq, markets,
  \* discover_relationships: position, number of batches not yet submitted,
  \* number of batches submitted, time
  mpc, batches, submitted, clock,
  \* ingest_markets: position, pages not yet fetched, markets fetched,
  \* markets upserted in the open transaction
  ipc, pages, fetched, txn,
  \* MarketCache: the dict objects, the object _markets refers to, the
  \* object new_markets refers to, the holder of _lock, the position of the
  \* refresher, the pages of the exchange in this refresh, the next page,
  \* the number of refreshes started
  heap, cache_markets, new_markets, lock, cpc, exchange, cursor, refreshes,
  \* a reader in snapshot(): position, the object being copied, the copy,
  \* the keys not yet copied; and every map _markets has referred to
  rdr, snap_src, snap, snap_left, published,
  \* shutdown: calls of send_shutdown_alert, the connection pool
  notifications, pool,
  \* KalshiClient._request: attempts made, rate-limiter tokens acquired,
  \* orders the exchange has created for the requests of the call
  attempt, tokens, accepted,
  \* the position cap over a detection cycle: positions open on the
  \* exchange, open_positions as the last sync left it, executions started
  \* since that sync
  positions, synced, started,
  \* the timers of _tick in seconds: the time of the last tick, the
  \* _last_x attributes, what each task did in the last tick
  tick_now, last_run, task_outcome

portfolioVars == <<balance, daily_pnl, open_positions, kill_switch, last_pnl_date>>
frameVars == <<pc, cur, count, orders, idx, filled_count, polls, filled, unfilled,
               success, result, preflight, startStatus, startTrades>>
vars == <<balance, daily_pnl, open_positions, kill_switch, last_pnl_date,
          portfolio_state, opp_status, trades, today, exch,
          dry_run, pc, cur, count, orders, idx, filled_count, polls,
          filled, unfilled, success, result,
          preflight, startStatus, startTrades, apiCalls, dbRaised, killLatched, nFills,
          arg, ret, running, tpc, elapsed, ingest_age, due, ran, raised, signalled,
          relationships, rel_seq, markets, mpc, batches, submitted, clock,
          ipc, pages, fetched, txn,
          heap, cache_markets, new_markets, lock, cpc, exchange, cursor, refreshes,
          rdr, snap_src, snap, snap_left, published, notifications, pool,
          attempt, tokens, accepted, positions, synced, started,
          tick_now, last_run, task_outcome>>
tickVars == <<running, tpc, elapsed, ingest_age, due, ran, raised, signalled>>
storeVars == <<relationships, rel_seq, markets>>
mapperVars == <<mpc, batches, submitted, clock>>
ingestVars == <<ipc, pages, fetched, txn>>
cacheVars == <<heap, cache_markets, new_markets, lock, cpc, exchange, cursor, refreshes,
               rdr, snap_src, snap, snap_left, published>>
shutdownVars == <<notifications, pool>>
requestVars == <<attempt, tokens, accepted>>
capVars == <<positions, synced, started>>
timerVars == <<tick_now, last_run, task_outcome>>
threadVars == <<cacheVars, shutdownVars, requestVars, capVars, timerVars>>
layerVars == <<storeVars, mapperVars, ingestVars, threadVars>>
otherVars == <<arg, ret, tickVars, layerVars>>

\* ------------------------------------------------------------------------
\* Pure functions
\* ------------------------------------------------------------------------
Min(a, b) == IF a <= b THEN a ELSE b
Max(a, b) == IF a >= b THEN a ELSE b

\* math.ceil of the rational n / d, d > 0, n >= 0
CeilDiv(n, d) == (n + d - 1) \div d

\* a fee rounded to the nearest cent
taker_fee_nearest(c, price) ==
  IF c <= 0 \/ price <= 0 \/ price >= 100 THEN 0
  ELSE (7 * c * price * (100 - price) + 5000) \div 10000

\* fees.taker_fee in cents: ceil(7 * C * P * (1 - P)) with P = price / 100
taker_fee(c, price) ==
  IF c <= 0 \/ price <= 0 \/ price >= 100 THEN 0
  ELSE CeilDiv(7 * c * price * (100 - price), 10000)

RECURSIVE MinDepth(_)
MinDepth(legs) ==
  IF Len(legs) = 1 THEN legs[1].depth
  ELSE Min(legs[1].depth, MinDepth(Tail(legs)))

\* a faulty can_trade that forgets the kill switch
can_trade_without_kill_switch ==
  daily_pnl > -max_daily_loss /\ open_positions < max_open_positions

\* Portfolio.can_trade
can_trade ==
  IF kill_switch THEN FALSE
  ELSE IF daily_pnl <= -max_daily_loss THEN FALSE
  ELSE IF open_positions >= max_open_positions THEN FALSE
  ELSE TRUE

\* Balances and magnitudes (both in cents) of the model's inputs for which
\* balance * 0.02 / magnitude is a whole number in exact arithmetic while the
\* quotient of the doubles falls just below it (15.0 * 0.02 / 0.05 is
\* 5.999999999999999); for every other input of the model the two agree.
ShortQuotients ==
  { <<1500, 5>>, <<1500, 10>>, <<2900, 1>>, <<2900, 2>>, <<3000, 5>>, <<3000, 10>> }

\* a sizing that divides exactly instead of in doubles
risk_based_exact(b, magnitude) ==
  (b * max_risk_per_trade_pct) \div (100 * magnitude)

\* risk_based = int(max_risk / magnitude), magnitude > 0
risk_based(b, magnitude) ==
  LET q == (b * max_risk_per_trade_pct) \div (100 * magnitude)
  IN IF <<b, magnitude>> \in ShortQuotients THEN q - 1 ELSE q

\* Portfolio.calculate_position_size
calculate_position_size(opp) ==
  IF opp.magnitude <= 0 THEN 0
  ELSE LET min_depth == IF opp.legs = <<>> THEN 0 ELSE MinDepth(opp.legs)
       IN Max(Min(risk_based(balance, opp.magnitude),
                  Min(min_depth, max_contracts_per_trade)), 0)

IsPartition(opp) == opp.signal \in {"BUY_ALL_PARTITION", "SELL_ALL_PARTITION"}

NoCalls == [place |-> 0, get |-> 0, cancel |-> 0]

\* The timers of Orchestrator._tick, and Orchestrator.__init__: every timer
\* starts at datetime.min, so every interval has elapsed; running is False
Timers == {"ingest", "rel_event", "rel_category", "scan", "summary"}
Constructed ==
  /\ running = FALSE
  /\ tpc = "sleep"
  /\ elapsed = Timers
  /\ ingest_age = 2
  /\ due = {}
  /\ ran = {}
  /\ raised = {}
  /\ signalled = FALSE

\* Tickers of the markets of the model
MarketTickers == {"A", "B", "C"}

\* A dict without keys: the refresh that wrote the entry of a ticker, 0 for
\* a ticker that is not a key
EmptyDict == [t \in MarketTickers |-> 0]

\* MarketCache.__init__: _markets is an empty dict, no thread is running
CacheConstructed ==
  /\ heap = [d \in 1..(MaxRefresh + 1) |-> EmptyDict]
  /\ cache_markets = 1
  /\ new_markets = 0
  /\ lock = "free"
  /\ cpc = "wait"
  /\ exchange = <<>>
  /\ cursor = 0
  /\ refreshes = 0
  /\ rdr = "idle"
  /\ snap_src = 0
  /\ snap = EmptyDict
  /\ snap_left = <<>>
  /\ published = {EmptyDict}

\* The threads and calls beside the orchestrator have not begun
Dormant ==
  /\ CacheConstructed
  /\ notifications = 0
  /\ pool = "open"
  /\ attempt = 0
  /\ tokens = 0
  /\ accepted = 0
  /\ positions = 0
  /\ synced = 0
  /\ started = 0
  /\ tick_now = 0
  /\ last_run = [t \in Timers |-> DatetimeMin]
  /\ task_outcome = [t \in Timers |-> "none"]

\* Empty tables relationships and markets; neither discover_relationships
\* nor ingest_markets is running
Quiescent ==
  /\ relationships = <<>>
  /\ rel_seq = 0
  /\ markets = [t \in MarketTickers |-> "none"]
  /\ mpc = "idle"
  /\ batches = 0
  /\ submitted = 0
  /\ clock = 0
  /\ ipc = "idle"
  /\ pages = <<>>
  /\ fetched = <<>>
  /\ txn = <<>>
  /\ Dormant

\* ------------------------------------------------------------------------
\* Environment responses
\* ------------------------------------------------------------------------
\* get_balance / get_positions: a value, or the call raises
BalanceResponses == { [ok |-> TRUE, value |-> b] : b \in Balances } \cup { [ok |-> FALSE, value |-> 0] }
PositionResponses == { [ok |-> TRUE, value |-> n] : n \in PositionCounts } \cup { [ok |-> FALSE, value |-> 0] }

Init ==
  \* Portfolio.__init__
  /\ balance = 0
  /\ daily_pnl = 0
  /\ open_positions = 0
  /\ kill_switch = FALSE
  /\ last_pnl_date = NoDate
  \* db.init_db: empty tables; the opportunities the detector inserted are DETECTED
  /\ portfolio_state = <<>>
  /\ opp_status = [o \in Opps |-> "DETECTED"]
  /\ trades = <<>>
  /\ today = 0
  /\ exch = <<>>
  \* Executor.__init__: dry_run comes from the configuration
  /\ dry_run \in BOOLEAN
  /\ pc = "idle"
  /\ cur = 0
  /\ count = 0
  /\ orders = <<>>
  /\ idx = 0
  /\ filled_count = 0
  /\ polls = 0
  /\ filled = <<>>
  /\ unfilled = <<>>
  /\ success = FALSE
  /\ result = "none"
  /\ preflight = FALSE
  /\ startStatus = "none"
  /\ startTrades = 0
  /\ apiCalls = NoCalls
  /\ dbRaised = FALSE
  /\ killLatched = FALSE
  /\ nFills = 0
  /\ arg = <<>>
  /\ ret = <<>>
  /\ Constructed
  /\ Quiescent

\* ------------------------------------------------------------------------
\* Portfolio
\* ------------------------------------------------------------------------
\* Portfolio._save_state: upsert of the single portfolio_state row.  Only the
\* kill_switch column is ever read back by the program.
save_state(k) == <<[kill_switch |-> k]>>

\* Portfolio.sync from the in-memory values (b, p, k, pnl, last).  The two
\* exchange calls catch their own exceptions; a database exception leaves
\* sync at the point where it was raised.
sync(b, p, k, pnl, last, balResp, posResp, loadOk, saveOk) ==
  /\ balance' = IF balResp.ok THEN balResp.value ELSE b
  /\ open_positions' = IF posResp.ok THEN posResp.value ELSE p
  /\ daily_pnl' = IF last # today THEN 0 ELSE pnl
  /\ last_pnl_date' = today
  /\ kill_switch' = IF loadOk /\ portfolio_state # <<>>
                     THEN portfolio_state[1].kill_switch ELSE k
  /\ portfolio_state' = IF loadOk /\ saveOk THEN save_state(kill_switch')
                         ELSE portfolio_state

\* Orchestrator._tick step 5: portfolio.sync() with its exception caught
Sync ==
  /\ pc = "idle"
  /\ \E balResp \in BalanceResponses, posResp \in PositionResponses, loadOk, saveOk \in BOOLEAN :
       sync(balance, open_positions, kill_switch, daily_pnl, last_pnl_date,
            balResp, posResp, loadOk, saveOk)
  /\ UNCHANGED <<opp_status, trades, today, exch, dry_run, otherVars, frameVars, apiCalls,
                 killLatched, nFills, dbRaised>>

\* A new process: Orchestrator.__init__ builds a fresh Portfolio, and
\* Orchestrator.run does the initial sync inside try/except.
Restart ==
  /\ pc = "idle"
  /\ \E balResp \in BalanceResponses, posResp \in PositionResponses, loadOk, saveOk \in BOOLEAN :
       sync(0, 0, FALSE, 0, NoDate, balResp, posResp, loadOk, saveOk)
  /\ UNCHANGED <<opp_status, trades, today, exch, dry_run, otherVars, frameVars, apiCalls,
                 killLatched, nFills, dbRaised>>

\* date.today() moves on
AdvanceDay ==
  /\ pc = "idle"
  /\ today < MaxDay
  /\ today' = today + 1
  /\ UNCHANGED <<portfolioVars, portfolio_state, opp_status, trades, exch, dry_run, otherVars,
                 frameVars, apiCalls, killLatched, nFills, dbRaised>>

\* Portfolio.record_fill
record_fill(action, price, c, fees) ==
  IF action = "sell" THEN daily_pnl + ((price * c) - fees)
  ELSE daily_pnl - ((price * c) + fees)

RecordFill ==
  /\ pc = "idle"
  /\ nFills < MaxFills
  /\ \E f \in FillArgs, saveOk \in BOOLEAN :
       /\ daily_pnl' = record_fill(f.action, f.price, f.count, f.fees)
       /\ portfolio_state' = IF saveOk THEN save_state(kill_switch) ELSE portfolio_state
  /\ nFills' = nFills + 1
  /\ UNCHANGED <<balance, open_positions, kill_switch, last_pnl_date, opp_status, trades,
                 today, exch, dry_run, otherVars, frameVars, apiCalls, killLatched, dbRaised>>

\* Portfolio.activate_kill_switch
ActivateKillSwitch ==
  /\ pc = "idle"
  /\ kill_switch' = TRUE
  /\ \E saveOk \in BOOLEAN :
       /\ portfolio_state' = IF saveOk THEN save_state(TRUE) ELSE portfolio_state
       /\ killLatched' = (killLatched \/ saveOk)
  /\ UNCHANGED <<balance, daily_pnl, open_positions, last_pnl_date, opp_status, trades,
                 today, exch, dry_run, otherVars, frameVars, apiCalls, nFills, dbRaised>>

\* Portfolio.deactivate_kill_switch
DeactivateKillSwitch ==
  /\ pc = "idle"
  /\ kill_switch' = FALSE
  /\ \E saveOk \in BOOLEAN :
       portfolio_state' = IF saveOk THEN save_state(FALSE) ELSE portfolio_state
  /\ killLatched' = FALSE
  /\ UNCHANGED <<balance, daily_pnl, open_positions, last_pnl_date, opp_status, trades,
                 today, exch, dry_run, otherVars, frameVars, apiCalls, nFills, dbRaised>>

\* ------------------------------------------------------------------------
\* Exchange (KalshiClient.place_order / get_order / cancel_order) and trades
\* ------------------------------------------------------------------------
ExId(n) == <<"EX", n>>
DryId(n) == <<"DRY", n>>

\* Executor._place_leg, the side -> action mapping
leg_action(leg) == IF leg.side = "buy" THEN "buy" ELSE "sell"

\* int(price * 100) on the float price, for a price of p hundredths of a dollar:
\* 0.29, 0.57 and 0.58 times 100 fall just below the integer and are truncated
price_cents(p) == IF p \in {29, 57, 58} THEN p - 1 ELSE p

\* the order the exchange books for place_order(ticker, action, "yes", "limit", count, yes_price)
NewOrder(leg, c) ==
  [ticker |-> leg.ticker, action |-> leg_action(leg), count |-> c, yes_price |-> price_cents(leg.price),
   status |-> "resting", filled_count |-> 0, cancels |-> 0]

\* a faulty dry-run row that is logged like a live placement
DryTrade_as_live(o, leg, c) ==
  [opportunity_id |-> o, ticker |-> leg.ticker, action |-> leg_action(leg),
   price |-> leg.price, count |-> c, order_id |-> ExId(Len(trades) + 1),
   order_status |-> "resting", filled_count |-> 0, fees |-> taker_fee(c, leg.price)]

\* the trade dict of Executor._place_leg, dry-run branch
DryTrade(o, leg, c) ==
  [opportunity_id |-> o, ticker |-> leg.ticker, action |-> leg_action(leg),
   price |-> leg.price, count |-> c, order_id |-> DryId(Len(trades) + 1),
   order_status |-> "dry_run", filled_count |-> c, fees |-> taker_fee(c, leg.price)]

\* the trade dict of Executor._place_leg, live branch
LiveTrade(o, leg, c) ==
  [opportunity_id |-> o, ticker |-> leg.ticker, action |-> leg_action(leg),
   price |-> leg.price, count |-> c, order_id |-> ExId(Len(exch) + 1),
   order_status |-> "resting", filled_count |-> 0, fees |-> taker_fee(c, leg.price)]

\* Outcomes of one _place_leg call:
\*   "ok"        the order is placed (or the dry-run row written) and returned
\*   "api_error" place_order raises: caught, returns None
\*   "db_error"  insert_trade raises: live, after the order was placed and caught
\*               (returns None); dry-run, not caught by _place_leg
PlaceOutcomes == IF dry_run THEN {"ok", "db_error"} ELSE {"ok", "api_error", "db_error"}

\* Executor._place_leg: effect on the exchange, the trades table and the call counts
place_leg(leg, c, outcome) ==
  /\ exch' = IF ~dry_run /\ outcome # "api_error" THEN Append(exch, NewOrder(leg, c)) ELSE exch
  /\ trades' = IF outcome # "ok" THEN trades
                ELSE IF dry_run THEN Append(trades, DryTrade(cur, leg, c))
                ELSE Append(trades, LiveTrade(cur, leg, c))
  /\ apiCalls' = IF dry_run THEN apiCalls ELSE [apiCalls EXCEPT !.place = @ + 1]
  /\ dbRaised' = (dbRaised \/ outcome = "db_error")

\* the order_id of the trade dict _place_leg returns when the outcome is "ok"
placed_id == IF dry_run THEN DryId(Len(trades) + 1) ELSE ExId(Len(exch) + 1)

\* Executor._cancel_order: client.cancel_order, then the UPDATE of the trade
\* row; any exception is caught.  resp is "ok", "api_error" or "db_error".
CancelOutcomes == {"ok", "api_error", "db_error"}

cancel_order(id, resp) ==
  /\ exch' = [exch EXCEPT ![id[2]] =
               [@ EXCEPT !.cancels = @ + 1,
                         !.status = IF resp # "api_error" /\ @ = "resting" THEN "canceled" ELSE @]]
  /\ trades' = IF resp = "ok"
                THEN [i \in DOMAIN trades |->
                        IF trades[i].order_id = id
                        THEN [trades[i] EXCEPT !.order_status = "cancelled"]
                        ELSE trades[i]]
                ELSE trades
  /\ apiCalls' = [apiCalls EXCEPT !.cancel = @ + 1]
  /\ dbRaised' = (dbRaised \/ resp = "db_error")

\* a faulty poll that reads a failed status check as a fill
check_order_status_error_is_filled(id, resp) ==
  IF resp = "ok" THEN exch[id[2]].status ELSE "filled"

\* Executor._check_order_status: the order dict, or None when get_order raises
CheckOutcomes == {"ok", "api_error"}
check_order_status(id, resp) ==
  IF resp = "ok" THEN exch[id[2]].status ELSE "none"

\* The exchange matches a resting order: status filled, with the filled quantity
ExchangeFill ==
  /\ \E i \in DOMAIN exch :
       /\ exch[i].status = "resting"
       /\ \E q \in 1..exch[i].count :
            exch' = [exch EXCEPT ![i] = [@ EXCEPT !.status = "filled", !.filled_count = q]]
  /\ UNCHANGED <<portfolioVars, portfolio_state, opp_status, trades, today, dry_run, otherVars,
                 frameVars, apiCalls, killLatched, nFills, dbRaised>>

\* The 30-second expiration_ts of a resting order passes
ExchangeExpire ==
  /\ \E i \in DOMAIN exch :
       /\ exch[i].status = "resting"
       /\ exch' = [exch EXCEPT ![i] = [@ EXCEPT !.status = "expired"]]
  /\ UNCHANGED <<portfolioVars, portfolio_state, opp_status, trades, today, dry_run, otherVars,
                 frameVars, apiCalls, killLatched, nFills, dbRaised>>

\* ------------------------------------------------------------------------
\* Executor.execute_opportunity, one action per exchange or database call
\* ------------------------------------------------------------------------
Legs == Opportunity(cur).legs

\* entry, the pre-flight checks and the position size (no call is made)
ExecuteStart ==
  /\ pc = "idle"
  /\ \E o \in Opps :
       LET opp == Opportunity(o)
           go == opp.legs # <<>> /\ can_trade /\ calculate_position_size(opp) > 0
       IN /\ Len(trades) + Len(opp.legs) <= MaxTrades
          /\ cur' = o
          /\ preflight' = go
          /\ count' = IF go THEN calculate_position_size(opp) ELSE 0
          /\ pc' = IF go THEN "mark" ELSE "returned"
          /\ result' = IF go THEN "none" ELSE "false"
          /\ startStatus' = opp_status[o]
  /\ startTrades' = Len(trades)
  /\ UNCHANGED <<portfolioVars, portfolio_state, opp_status, trades, today, exch, dry_run, otherVars,
                 apiCalls, orders, idx, filled_count, polls, filled, unfilled, success,
                 killLatched, nFills, dbRaised>>

\* update_opportunity_status(EXECUTING), outside the try block
MarkExecuting ==
  /\ pc = "mark"
  /\ \E dbOk \in BOOLEAN :
       IF dbOk
       THEN /\ opp_status' = [opp_status EXCEPT ![cur] = "EXECUTING"]
            /\ pc' = IF IsPartition(Opportunity(cur)) THEN "mplace"
                      ELSE IF Len(Legs) < 2 THEN "final"
                      ELSE "place1"
            /\ idx' = IF IsPartition(Opportunity(cur)) THEN 1 ELSE 0
            /\ result' = result
       ELSE /\ pc' = "raised"
            /\ result' = "raised"
            /\ UNCHANGED <<opp_status, idx>>
  /\ dbRaised' = (pc' = "raised")
  /\ UNCHANGED <<portfolioVars, portfolio_state, trades, today, exch, dry_run, otherVars,
                 cur, count, orders, filled_count, polls, filled, unfilled, success,
                 preflight, startStatus, startTrades, apiCalls, killLatched, nFills>>

\* _execute_two_leg: order1 = _place_leg(leg1, count)
PlaceLeg1 ==
  /\ pc = "place1"
  /\ \E outcome \in PlaceOutcomes :
       /\ place_leg(Legs[1], count, outcome)
       /\ orders' = IF outcome = "ok" THEN <<placed_id>> ELSE orders
       /\ pc' = IF outcome = "ok" THEN (IF dry_run THEN "place2" ELSE "wait1")
                 ELSE IF dry_run THEN "except"
                 ELSE "final"
       /\ polls' = IF outcome = "ok" /\ ~dry_run THEN MaxPolls ELSE polls
       /\ filled_count' = IF outcome = "ok" /\ dry_run THEN count ELSE filled_count
  /\ success' = FALSE
  /\ UNCHANGED <<portfolioVars, portfolio_state, opp_status, today, dry_run, otherVars,
                 cur, count, idx, filled, unfilled, result,
                 preflight, startStatus, startTrades, killLatched, nFills>>

\* a faulty leg-2 size: the originally sized count instead of the reported fill
filled_quantity_sized(order) == count

\* filled_count = filled1.get("filled_count", count)
filled_quantity(order) == order.filled_count

\* _wait_for_fill(order1): one iteration of the polling loop
WaitLeg1 ==
  /\ pc = "wait1"
  /\ \E resp \in CheckOutcomes :
       LET status == check_order_status(orders[1], resp)
       IN /\ pc' = IF status = "filled" THEN "place2"
                    ELSE IF status \in {"canceled", "cancelled", "expired"} THEN "cancel1"
                    ELSE IF polls = 1 THEN "cancel1"
                    ELSE "wait1"
          /\ filled_count' = IF status = "filled" THEN filled_quantity(exch[orders[1][2]])
                              ELSE filled_count
  /\ polls' = polls - 1
  /\ apiCalls' = [apiCalls EXCEPT !.get = @ + 1]
  /\ UNCHANGED <<portfolioVars, portfolio_state, opp_status, trades, today, exch, dry_run, otherVars,
                 cur, count, orders, idx, filled, unfilled, success, result,
                 preflight, startStatus, startTrades, killLatched, nFills, dbRaised>>

\* a faulty leg-1 timeout path that returns without cancelling
CancelLeg1_skipped ==
  /\ pc = "cancel1"
  /\ success' = FALSE
  /\ pc' = "final"
  /\ UNCHANGED <<portfolioVars, portfolio_state, opp_status, trades, today, exch, dry_run, otherVars,
                 cur, count, orders, idx, filled_count, polls, filled, unfilled, result,
                 preflight, startStatus, startTrades, apiCalls, dbRaised, killLatched, nFills>>

\* leg 1 not filled: _cancel_order(order1), return False
CancelLeg1 ==
  /\ pc = "cancel1"
  /\ \E resp \in CancelOutcomes : cancel_order(orders[1], resp)
  /\ success' = FALSE
  /\ pc' = "final"
  /\ UNCHANGED <<portfolioVars, portfolio_state, opp_status, today, dry_run, otherVars,
                 cur, count, orders, idx, filled_count, polls, filled, unfilled, result,
                 preflight, startStatus, startTrades, killLatched, nFills>>

\* leg 2 one cent more aggressive in the trade direction
leg2_adjusted(leg2) ==
  [leg2 EXCEPT !.price = IF leg2.side = "buy" THEN price_cents(leg2.price) + 1
                         ELSE Max(1, price_cents(leg2.price) - 1)]

\* a faulty leg-2 placement that lets the exception of place_order escape
PlaceLeg2_uncaught ==
  /\ pc = "place2"
  /\ \E outcome \in PlaceOutcomes :
       /\ place_leg(leg2_adjusted(Legs[2]), filled_count, outcome)
       /\ orders' = IF outcome = "ok" THEN Append(orders, placed_id) ELSE orders
       /\ pc' = IF outcome = "ok" THEN (IF dry_run THEN "final" ELSE "wait2")
                 ELSE IF dry_run THEN "except"
                 ELSE IF outcome = "api_error" THEN "raised"
                 ELSE "final"
       /\ result' = IF ~dry_run /\ outcome = "api_error" THEN "raised" ELSE result
       /\ polls' = IF outcome = "ok" /\ ~dry_run THEN MaxPolls ELSE polls
       /\ success' = (outcome = "ok" /\ dry_run)
  /\ UNCHANGED <<portfolioVars, portfolio_state, opp_status, today, dry_run, otherVars,
                 cur, count, idx, filled_count, filled, unfilled,
                 preflight, startStatus, startTrades, killLatched, nFills>>

\* order2 = _place_leg(leg2_adjusted, filled_count)
PlaceLeg2 ==
  /\ pc = "place2"
  /\ \E outcome \in PlaceOutcomes :
       /\ place_leg(leg2_adjusted(Legs[2]), filled_count, outcome)
       /\ orders' = IF outcome = "ok" THEN Append(orders, placed_id) ELSE orders
       /\ pc' = IF outcome = "ok" THEN (IF dry_run THEN "final" ELSE "wait2")
                 ELSE IF dry_run THEN "except"
                 ELSE "final"
       /\ polls' = IF outcome = "ok" /\ ~dry_run THEN MaxPolls ELSE polls
       /\ success' = (outcome = "ok" /\ dry_run)
  /\ UNCHANGED <<portfolioVars, portfolio_state, opp_status, today, dry_run, otherVars,
                 cur, count, idx, filled_count, filled, unfilled, result,
                 preflight, startStatus, startTrades, killLatched, nFills>>

\* _wait_for_fill(order2): one iteration of the polling loop
WaitLeg2 ==
  /\ pc = "wait2"
  /\ \E resp \in CheckOutcomes :
       LET status == check_order_status(orders[2], resp)
       IN /\ pc' = IF status = "filled" THEN "final"
                    ELSE IF status \in {"canceled", "cancelled", "expired"} THEN "cancel2"
                    ELSE IF polls = 1 THEN "cancel2"
                    ELSE "wait2"
          /\ success' = (status = "filled")
  /\ polls' = polls - 1
  /\ apiCalls' = [apiCalls EXCEPT !.get = @ + 1]
  /\ UNCHANGED <<portfolioVars, portfolio_state, opp_status, trades, today, exch, dry_run, otherVars,
                 cur, count, orders, idx, filled_count, filled, unfilled, result,
                 preflight, startStatus, startTrades, killLatched, nFills, dbRaised>>

\* a faulty leg-2 timeout path that chases with a compensating market order
CancelLeg2_chasing ==
  /\ pc = "cancel2"
  /\ \E resp \in CancelOutcomes : cancel_order(orders[2], resp)
  /\ pc' = "place2"
  /\ UNCHANGED <<portfolioVars, portfolio_state, opp_status, today, dry_run, otherVars,
                 cur, count, orders, idx, filled_count, polls, filled, unfilled, result,
                 success, preflight, startStatus, startTrades, killLatched, nFills>>

\* leg 2 not filled: _cancel_order(order2), return False
CancelLeg2 ==
  /\ pc = "cancel2"
  /\ \E resp \in CancelOutcomes : cancel_order(orders[2], resp)
  /\ success' = FALSE
  /\ pc' = "final"
  /\ UNCHANGED <<portfolioVars, portfolio_state, opp_status, today, dry_run, otherVars,
                 cur, count, orders, idx, filled_count, polls, filled, unfilled, result,
                 preflight, startStatus, startTrades, killLatched, nFills>>

\* _execute_multi_leg: the loop placing every leg
PlacePartitionLeg ==
  /\ pc = "mplace"
  /\ \E outcome \in PlaceOutcomes :
       /\ place_leg(Legs[idx], count, outcome)
       /\ orders' = IF outcome = "ok" THEN Append(orders, placed_id) ELSE orders
       /\ IF dry_run /\ outcome = "db_error"
          THEN pc' = "except" /\ UNCHANGED <<idx, success>>
          ELSE IF idx < Len(Legs)
          THEN pc' = "mplace" /\ idx' = idx + 1 /\ UNCHANGED success
          ELSE IF orders' = <<>>
          THEN pc' = "final" /\ success' = FALSE /\ UNCHANGED idx
          ELSE IF dry_run
          THEN pc' = "final" /\ success' = TRUE /\ UNCHANGED idx
          ELSE pc' = "mpoll" /\ idx' = 1 /\ UNCHANGED success
  /\ UNCHANGED <<portfolioVars, portfolio_state, opp_status, today, dry_run, otherVars,
                 cur, count, filled_count, polls, filled, unfilled, result,
                 preflight, startStatus, startTrades, killLatched, nFills>>

\* _execute_multi_leg: return len(filled) == len(orders)
multi_leg_result(f, os) == Len(f) = Len(os)

\* after the 5 s sleep: one _check_order_status per placed order
PollPartitionLeg ==
  /\ pc = "mpoll"
  /\ \E resp \in CheckOutcomes :
       LET status == check_order_status(orders[idx], resp)
       IN /\ filled' = IF status = "filled" THEN Append(filled, orders[idx]) ELSE filled
          /\ unfilled' = IF status = "filled" THEN unfilled ELSE Append(unfilled, orders[idx])
  /\ IF idx < Len(orders)
     THEN pc' = "mpoll" /\ idx' = idx + 1 /\ UNCHANGED success
     ELSE IF unfilled' # <<>>
     THEN pc' = "mcancel" /\ idx' = 1 /\ UNCHANGED success
     ELSE pc' = "final" /\ success' = multi_leg_result(filled', orders) /\ UNCHANGED idx
  /\ apiCalls' = [apiCalls EXCEPT !.get = @ + 1]
  /\ UNCHANGED <<portfolioVars, portfolio_state, opp_status, trades, today, exch, dry_run, otherVars,
                 cur, count, orders, filled_count, polls, result,
                 preflight, startStatus, startTrades, killLatched, nFills, dbRaised>>

\* the loop cancelling every unfilled order
CancelPartitionLeg ==
  /\ pc = "mcancel"
  /\ \E resp \in CancelOutcomes : cancel_order(unfilled[idx], resp)
  /\ IF idx < Len(unfilled)
     THEN pc' = "mcancel" /\ idx' = idx + 1 /\ UNCHANGED success
     ELSE pc' = "final" /\ success' = multi_leg_result(filled, orders) /\ UNCHANGED idx
  /\ UNCHANGED <<portfolioVars, portfolio_state, opp_status, today, dry_run, otherVars,
                 cur, count, orders, filled_count, polls, filled, unfilled, result,
                 preflight, startStatus, startTrades, killLatched, nFills>>

\* a faulty final status that marks every finished execution FILLED
final_status_always_filled(ok) == "FILLED"

\* final_status = "FILLED" if success else "FAILED"
final_status(ok) == IF ok THEN "FILLED" ELSE "FAILED"

\* update_opportunity_status(final_status) inside the try block; return success
FinalStatus ==
  /\ pc = "final"
  /\ \E dbOk \in BOOLEAN :
       IF dbOk
       THEN /\ opp_status' = [opp_status EXCEPT ![cur] = final_status(success)]
            /\ result' = IF success THEN "true" ELSE "false"
            /\ pc' = "returned"
       ELSE /\ pc' = "except"
            /\ UNCHANGED <<opp_status, result>>
  /\ dbRaised' = (dbRaised \/ pc' = "except")
  /\ UNCHANGED <<portfolioVars, portfolio_state, trades, today, exch, dry_run, otherVars,
                 cur, count, orders, idx, filled_count, polls, filled, unfilled, success,
                 preflight, startStatus, startTrades, apiCalls, killLatched, nFills>>

\* except Exception: update_opportunity_status(FAILED); return False
ExceptionHandler ==
  /\ pc = "except"
  /\ \E dbOk \in BOOLEAN :
       IF dbOk
       THEN /\ opp_status' = [opp_status EXCEPT ![cur] = "FAILED"]
            /\ result' = "false"
            /\ pc' = "returned"
       ELSE /\ pc' = "raised"
            /\ result' = "raised"
            /\ UNCHANGED opp_status
  /\ dbRaised' = (dbRaised \/ pc' = "raised")
  /\ UNCHANGED <<portfolioVars, portfolio_state, trades, today, exch, dry_run, otherVars,
                 cur, count, orders, idx, filled_count, polls, filled, unfilled, success,
                 preflight, startStatus, startTrades, apiCalls, killLatched, nFills>>

\* the frame of execute_opportunity is left; the call's orders leave the view
CallEnd ==
  /\ pc \in {"returned", "raised"}
  /\ pc' = "idle"
  /\ cur' = 0
  /\ count' = 0
  /\ orders' = <<>>
  /\ idx' = 0
  /\ filled_count' = 0
  /\ polls' = 0
  /\ filled' = <<>>
  /\ unfilled' = <<>>
  /\ success' = FALSE
  /\ result' = "none"
  /\ preflight' = FALSE
  /\ startStatus' = "none"
  /\ startTrades' = 0
  /\ exch' = <<>>
  /\ apiCalls' = NoCalls
  /\ dbRaised' = FALSE
  /\ UNCHANGED <<portfolioVars, portfolio_state, opp_status, trades, today, dry_run, otherVars,
                 killLatched, nFills>>

Next ==
  \/ Sync
  \/ Restart
  \/ AdvanceDay
  \/ RecordFill
  \/ ActivateKillSwitch
  \/ DeactivateKillSwitch
  \/ ExecuteStart
  \/ MarkExecuting
  \/ PlaceLeg1
  \/ WaitLeg1
  \/ CancelLeg1
  \/ PlaceLeg2
  \/ WaitLeg2
  \/ CancelLeg2
  \/ PlacePartitionLeg
  \/ PollPartitionLeg
  \/ CancelPartitionLeg
  \/ FinalStatus
  \/ ExceptionHandler
  \/ CallEnd
  \/ ExchangeFill
  \/ ExchangeExpire

Spec == Init /\ [][Next]_vars

\* ------------------------------------------------------------------------
\* The executor on its own: the portfolio is in one of the states the
\* portfolio actions reach (cf. _mock_portfolio in tests/test_mock_trades.py)
\* and stays there, as it does during the calls of one detection cycle.
\* ------------------------------------------------------------------------
InitExecutor ==
  /\ balance \in Balances
  /\ daily_pnl \in {0, 0 - max_daily_loss}
  /\ open_positions \in PositionCounts
  /\ kill_switch \in BOOLEAN
  /\ last_pnl_date = 0
  /\ portfolio_state = save_state(kill_switch)
  /\ opp_status = [o \in Opps |-> "DETECTED"]
  /\ trades = <<>>
  /\ today = 0
  /\ exch = <<>>
  /\ dry_run \in BOOLEAN
  /\ pc = "idle"
  /\ cur = 0
  /\ count = 0
  /\ orders = <<>>
  /\ idx = 0
  /\ filled_count = 0
  /\ polls = 0
  /\ filled = <<>>
  /\ unfilled = <<>>
  /\ success = FALSE
  /\ result = "none"
  /\ preflight = FALSE
  /\ startStatus = "none"
  /\ startTrades = 0
  /\ apiCalls = NoCalls
  /\ dbRaised = FALSE
  /\ killLatched = kill_switch
  /\ nFills = 0
  /\ arg = <<>>
  /\ ret = <<>>
  /\ Constructed
  /\ Quiescent

NextExecutor ==
  \/ ExecuteStart
  \/ MarkExecuting
  \/ PlaceLeg1
  \/ WaitLeg1
  \/ CancelLeg1
  \/ PlaceLeg2
  \/ WaitLeg2
  \/ CancelLeg2
  \/ PlacePartitionLeg
  \/ PollPartitionLeg
  \/ CancelPartitionLeg
  \/ FinalStatus
  \/ ExceptionHandler
  \/ CallEnd
  \/ ExchangeFill
  \/ ExchangeExpire

SpecExecutor == InitExecutor /\ [][NextExecutor]_vars

\* ------------------------------------------------------------------------
\* The life of the portfolio guard over restarts, with the executor in
\* dry-run mode (the configuration default, main.py load_config)
\* ------------------------------------------------------------------------
InitPortfolio == Init /\ dry_run = TRUE

\* Next without the actions that only a live executor can take
NextPortfolio ==
  \/ Sync
  \/ Restart
  \/ AdvanceDay
  \/ RecordFill
  \/ ActivateKillSwitch
  \/ DeactivateKillSwitch
  \/ ExecuteStart
  \/ MarkExecuting
  \/ PlaceLeg1
  \/ PlaceLeg2
  \/ PlacePartitionLeg
  \/ FinalStatus
  \/ ExceptionHandler
  \/ CallEnd

SpecPortfolio == InitPortfolio /\ [][NextPortfolio]_vars

\* ------------------------------------------------------------------------
\* Functions applied to inputs drawn from bounded sets
\* ------------------------------------------------------------------------
\* every variable but arg and ret, and the state of an Executor at rest
programVars == <<portfolioVars, portfolio_state, opp_status, trades, today, exch,
                 dry_run, frameVars, apiCalls, dbRaised, killLatched, nFills>>

AtRest ==
  /\ portfolio_state = <<>>
  /\ opp_status = [o \in Opps |-> "DETECTED"]
  /\ trades = <<>>
  /\ today = 0
  /\ exch = <<>>
  /\ dry_run = TRUE
  /\ cur = 0
  /\ count = 0
  /\ orders = <<>>
  /\ idx = 0
  /\ filled_count = 0
  /\ polls = 0
  /\ filled = <<>>
  /\ unfilled = <<>>
  /\ success = FALSE
  /\ result = "none"
  /\ preflight = FALSE
  /\ startStatus = "none"
  /\ startTrades = 0
  /\ apiCalls = NoCalls
  /\ dbRaised = FALSE
  /\ killLatched = FALSE
  /\ nFills = 0

\* Sequences over S of length at most n
RECURSIVE SeqsUpTo(_, _)
SeqsUpTo(S, n) ==
  IF n = 0 THEN {<<>>}
  ELSE LET shorter == SeqsUpTo(S, n - 1)
       IN shorter \cup { Append(q, x) : q \in shorter, x \in S }

\* Inputs of calculate_position_size: balance and magnitude in cents, leg depths
SizingBalances == {0, 1500, 2900, 10000, 100000}
SizingMagnitudes == {0 - 5, 0, 2, 5, 10, 40}
SizingDepths == {0, 6, 30, 60}
SizingOpportunities ==
  { [magnitude |-> m, legs |-> [i \in DOMAIN ds |-> [depth |-> ds[i]]]] :
      m \in SizingMagnitudes, ds \in SeqsUpTo(SizingDepths, MaxLegs) }

InitSizing ==
  /\ balance \in SizingBalances
  /\ daily_pnl = 0
  /\ open_positions = 0
  /\ kill_switch = FALSE
  /\ last_pnl_date = NoDate
  /\ AtRest
  /\ pc = "size"
  /\ arg \in SizingOpportunities
  /\ ret = <<>>
  /\ Constructed
  /\ Quiescent

\* count = self.portfolio.calculate_position_size(opportunity)
Size ==
  /\ pc = "size"
  /\ ret = <<>>
  /\ ret' = <<calculate_position_size(arg)>>
  /\ UNCHANGED <<programVars, arg, tickVars, layerVars>>

SpecSizing == InitSizing /\ [][Size]_vars

\* ------------------------------------------------------------------------
\* Orchestrator.run and Orchestrator._tick
\* ------------------------------------------------------------------------
\* Orchestrator.run has set running and is about to enter the loop
InitTick ==
  /\ balance = 0
  /\ daily_pnl = 0
  /\ open_positions = 0
  /\ kill_switch = FALSE
  /\ last_pnl_date = NoDate
  /\ AtRest
  /\ pc = "idle"
  /\ arg = <<>>
  /\ ret = <<>>
  /\ running = TRUE
  /\ tpc = "sleep"
  /\ elapsed = Timers
  /\ ingest_age = 2
  /\ due = {}
  /\ ran = {}
  /\ raised = {}
  /\ signalled = FALSE
  /\ Quiescent

\* handle_signal: SIGTERM or SIGINT clears the running flag
HandleSignal ==
  /\ running
  /\ running' = FALSE
  /\ signalled' = TRUE
  /\ UNCHANGED <<programVars, layerVars, arg, ret, tpc, elapsed, ingest_age, due, ran, raised>>

\* while self.running: now = datetime.now(); self._tick(now).  Since the last
\* tick at least a second has passed and any further interval may have elapsed.
TickStart ==
  /\ running
  /\ tpc = "sleep"
  /\ \E e \in SUBSET Timers, late \in BOOLEAN :
       /\ elapsed \subseteq e
       /\ elapsed' = e
       /\ ingest_age' = IF "ingest" \in e \/ late THEN 2 ELSE Min(ingest_age + 1, 2)
  /\ due' = elapsed'
  /\ ran' = {}
  /\ raised' = {}
  /\ tpc' = "ingest"
  /\ UNCHANGED <<programVars, layerVars, arg, ret, running, signalled>>

\* a faulty task guard that lets an exception end the tick
timed_task_aborting(t, ok, next) ==
  IF t \in elapsed
  THEN /\ ran' = ran \cup {t}
       /\ elapsed' = IF ok THEN elapsed \ {t} ELSE elapsed
       /\ raised' = IF ok THEN raised ELSE raised \cup {t}
       /\ tpc' = IF ok THEN next ELSE "sleep"
  ELSE /\ tpc' = next
       /\ UNCHANGED <<ran, elapsed, raised>>

\* if now - self._last_x >= interval: try: task(); self._last_x = now
\* except Exception: log (and alert)
timed_task(t, ok, next) ==
  /\ tpc' = next
  /\ IF t \in elapsed
     THEN /\ ran' = ran \cup {t}
          /\ elapsed' = IF ok THEN elapsed \ {t} ELSE elapsed
          /\ raised' = IF ok THEN raised ELSE raised \cup {t}
     ELSE UNCHANGED <<ran, elapsed, raised>>

\* 1. Market ingestion
Ingest ==
  /\ tpc = "ingest"
  /\ \E ok \in BOOLEAN :
       /\ timed_task("ingest", ok, "rel_event")
       /\ ingest_age' = IF "ingest" \in elapsed /\ ok THEN 0 ELSE ingest_age
  /\ UNCHANGED <<programVars, layerVars, arg, ret, running, due, signalled>>

\* 2. Relationship discovery (event pass)
RelEvent ==
  /\ tpc = "rel_event"
  /\ \E ok \in BOOLEAN : timed_task("rel_event", ok, "rel_category")
  /\ UNCHANGED <<programVars, layerVars, arg, ret, running, ingest_age, due, signalled>>

\* 3. Relationship discovery (category pass)
RelCategory ==
  /\ tpc = "rel_category"
  /\ \E ok \in BOOLEAN : timed_task("rel_category", ok, "scan")
  /\ UNCHANGED <<programVars, layerVars, arg, ret, running, ingest_age, due, signalled>>

\* 4. Opportunity detection and execution
Scan ==
  /\ tpc = "scan"
  /\ \E ok \in BOOLEAN : timed_task("scan", ok, "sync")
  /\ UNCHANGED <<programVars, layerVars, arg, ret, running, ingest_age, due, signalled>>

\* 5. Portfolio sync: if now - self._last_ingest < 2 seconds
TickSync ==
  /\ tpc = "sync"
  /\ tpc' = "summary"
  /\ IF ingest_age < 2
     THEN /\ ran' = ran \cup {"sync"}
          /\ \E ok \in BOOLEAN : raised' = IF ok THEN raised ELSE raised \cup {"sync"}
     ELSE UNCHANGED <<ran, raised>>
  /\ UNCHANGED <<programVars, layerVars, arg, ret, running, elapsed, ingest_age, due, signalled>>

\* 6. Daily summary; _tick returns and the loop sleeps one second
DailySummary ==
  /\ tpc = "summary"
  /\ \E ok \in BOOLEAN : timed_task("summary", ok, "sleep")
  /\ UNCHANGED <<programVars, layerVars, arg, ret, running, ingest_age, due, signalled>>

NextTick ==
  \/ HandleSignal
  \/ TickStart
  \/ Ingest
  \/ RelEvent
  \/ RelCategory
  \/ Scan
  \/ TickSync
  \/ DailySummary

SpecTick == InitTick /\ [][NextTick]_vars

\* ------------------------------------------------------------------------
\* Detector (src/detector.py); prices and magnitudes in cents, confidence
\* in hundredths, scores in millionths of a dollar
\* ------------------------------------------------------------------------
\* Market prices of the model, and NULL columns of a market row
Prices == {0, 6, 10, 42, 50, 52, 58, 60, 65, 98, 100}
OpenInterests == {NULL, 0, 10, 50, 60}
Confidences == {50, 90}

\* Pairs (a, b) of Prices for which a/100 - b/100, computed in doubles, lies
\* above the double nearest to (a - b)/100: 0.50 - 0.42 is 0.08000000000000002
DiffRoundsUp ==
  { <<6, 98>>, <<10, 6>>, <<10, 42>>, <<42, 58>>, <<50, 42>>, <<50, 58>>,
    <<50, 60>>, <<52, 10>>, <<52, 42>>, <<52, 50>>, <<52, 58>>, <<52, 60>>,
    <<52, 98>>, <<60, 58>>, <<65, 6>>, <<65, 42>>, <<65, 50>>, <<65, 58>>,
    <<65, 60>>, <<65, 98>>, <<100, 42>>, <<100, 58>>, <<100, 98>> }

\* (a/100 - b/100) > k/100 as evaluated in doubles
diff_gt(a, b, k) == a - b > k \/ (a - b = k /\ <<a, b>> \in DiffRoundsUp)

\* fees.is_profitable_after_fees(magnitude, 1, [a, b], safety) for
\* magnitude = a - b: magnitude > fee_per_contract * safety_multiplier
is_profitable_after_fees(a, b) ==
  diff_gt(a, b, fee_safety_multiplier * (taker_fee(1, a) + taker_fee(1, b)))

\* the fee hurdle in exact arithmetic
exact_fee_hurdle(a, b) ==
  a - b > fee_safety_multiplier * (taker_fee(1, a) + taker_fee(1, b))

Returned_(v) == [raised |-> FALSE, value |-> v]
Raised_ == [raised |-> TRUE, value |-> <<>>]

\* an opportunity dict whose magnitude is short of the price difference by
\* the two-cent spread of the superset market
SubsetOpportunity_net_of_spread(rel, depth) ==
  LET magnitude == rel.sub.yes_ask - rel.sup.yes_bid - 2
  IN [relationship_id |-> rel.id,
      signal |-> "BUY_SUPERSET_SELL_SUBSET",
      magnitude |-> magnitude,
      confidence |-> rel.confidence,
      score |-> 2 * magnitude * rel.confidence * Min(depth, 50),
      legs |-> << [ticker |-> "SUP", side |-> "buy", price |-> rel.sup.yes_bid, depth |-> depth],
                  [ticker |-> "SUB", side |-> "sell", price |-> rel.sub.yes_ask, depth |-> depth] >>,
      status |-> "DETECTED"]

\* the opportunity dict built by _check_subset
SubsetOpportunity(rel, depth) ==
  LET magnitude == rel.sub.yes_ask - rel.sup.yes_bid
  IN [relationship_id |-> rel.id,
      signal |-> "BUY_SUPERSET_SELL_SUBSET",
      magnitude |-> magnitude,
      confidence |-> rel.confidence,
      score |-> 2 * magnitude * rel.confidence * Min(depth, 50),
      legs |-> << [ticker |-> "SUP", side |-> "buy", price |-> rel.sup.yes_bid, depth |-> depth],
                  [ticker |-> "SUB", side |-> "sell", price |-> rel.sub.yes_ask, depth |-> depth] >>,
      status |-> "DETECTED"]

\* detector._check_subset for a relationship whose two markets are present.
\* min() of a NULL open_interest and an integer raises TypeError.
check_subset(rel) ==
  IF ~diff_gt(rel.sub.yes_ask, rel.sup.yes_bid, MIN_MAGNITUDE) THEN Returned_(<<>>)
  ELSE IF ~is_profitable_after_fees(rel.sub.yes_ask, rel.sup.yes_bid) THEN Returned_(<<>>)
  ELSE IF rel.sub.open_interest = NULL \/ rel.sup.open_interest = NULL THEN Raised_
  ELSE LET least == Min(rel.sub.open_interest, rel.sup.open_interest)
           depth == IF least = 0 THEN DEFAULT_DEPTH ELSE least
       IN Returned_(<<SubsetOpportunity(rel, depth)>>)

\* SUBSET relationships [sub, sup] with the rows of their two markets
SubsetRelationships ==
  { [id |-> 1, type |-> "SUBSET", confidence |-> c,
     sub |-> [yes_ask |-> a, open_interest |-> i],
     sup |-> [yes_bid |-> b, open_interest |-> j]] :
      a \in Prices, b \in Prices, i \in OpenInterests, j \in OpenInterests,
      c \in Confidences }

InitSubset ==
  /\ balance = 0
  /\ daily_pnl = 0
  /\ open_positions = 0
  /\ kill_switch = FALSE
  /\ last_pnl_date = NoDate
  /\ AtRest
  /\ Constructed
  /\ Quiescent
  /\ pc = "check_subset"
  /\ arg \in SubsetRelationships
  /\ ret = <<>>

\* opps = _check_subset(rel, tickers, markets, confidence, fee_safety_multiplier)
CheckSubset ==
  /\ pc = "check_subset"
  /\ ret = <<>>
  /\ ret' = <<check_subset(arg)>>
  /\ UNCHANGED <<programVars, arg, tickVars, layerVars>>

SpecSubset == InitSubset /\ [][CheckSubset]_vars

\* Active relationships as db.get_active_relationships returns them, in row
\* order: sequences of at most MaxRels SUBSET relationships, ids by position
ScanRelationships ==
  { r \in SubsetRelationships :
      /\ r.sub.yes_ask \in {52, 65} /\ r.sup.yes_bid \in {42, 50}
      /\ r.sub.open_interest = 60 /\ r.sup.open_interest \in {NULL, 10, 60}
      /\ r.confidence = 90 }
ScanInputs ==
  { [i \in DOMAIN rels |-> [rels[i] EXCEPT !.id = i]] :
      rels \in SeqsUpTo(ScanRelationships, MaxRels) }

\* if opp["score"] >= min_score
min_score_ok(opp) == opp.score >= min_score_threshold

\* the loop of scan_for_violations over the relationships; found is the list
\* of opportunities appended so far.  An exception of a checker leaves the
\* function.
RECURSIVE scan_loop(_, _)
scan_loop(rels, found) ==
  IF rels = <<>> THEN Returned_(found)
  ELSE LET opps == check_subset(Head(rels))
       IN IF opps.raised THEN Raised_
          ELSE scan_loop(Tail(rels), found \o SelectSeq(opps.value, min_score_ok))

\* detector.scan_for_violations
scan_for_violations(rels) == scan_loop(rels, <<>>)

InitScan ==
  /\ balance = 0
  /\ daily_pnl = 0
  /\ open_positions = 0
  /\ kill_switch = FALSE
  /\ last_pnl_date = NoDate
  /\ AtRest
  /\ Constructed
  /\ Quiescent
  /\ pc = "scan_for_violations"
  /\ arg \in ScanInputs
  /\ ret = <<>>

\* opportunities = scan_for_violations(min_score, fee_safety_multiplier)
ScanForViolations ==
  /\ pc = "scan_for_violations"
  /\ ret = <<>>
  /\ ret' = <<scan_for_violations(arg)>>
  /\ UNCHANGED <<programVars, arg, tickVars, layerVars>>

SpecScan == InitScan /\ [][ScanForViolations]_vars

\* ------------------------------------------------------------------------
\* PARTITION relationships (detector._check_partition)
\* ------------------------------------------------------------------------
\* (yes_ask, yes_bid) of a member market; NULL is a column without a value
PartitionQuotes ==
  { <<NULL, NULL>>, <<2, 0>>, <<30, 28>>, <<49, 47>>, <<52, 50>>, <<60, 58>>,
    <<98, 96>> }
PartitionOpenInterests == {NULL, 60}

\* a participating ticker without a row in markets
NoMarket ==
  [present |-> FALSE, yes_ask |-> NULL, yes_bid |-> NULL, open_interest |-> NULL]

PartitionMarkets ==
  {NoMarket} \cup
  { [present |-> TRUE, yes_ask |-> q[1], yes_bid |-> q[2], open_interest |-> i] :
      q \in PartitionQuotes, i \in PartitionOpenInterests }

\* the tickers of a relationship, by position
Tickers == <<"T1", "T2", "T3">>

\* PARTITION relationships of two to MaxMembers tickers, each with the row
\* of its market or without one
PartitionRelationships ==
  { [id |-> 1, type |-> "PARTITION", confidence |-> 90, members |-> ms] :
      ms \in { s \in SeqsUpTo(PartitionMarkets, MaxMembers) : Len(s) >= 2 } }

\* x or 0
or0(x) == IF x = NULL THEN 0 ELSE x

RECURSIVE SumSeq(_)
SumSeq(s) == IF s = <<>> THEN 0 ELSE Head(s) + SumSeq(Tail(s))

\* sum(taker_fee(1, p) for p in prices)
total_fees(prices) == SumSeq([i \in DOMAIN prices |-> taker_fee(1, prices[i])])

\* Ask sequences for which 1.00 - sum(asks), computed in doubles, lies above
\* the decimal difference, among those whose difference equals MIN_MAGNITUDE
\* or the fee hurdle: 1.00 - (0.49 + 0.49) is 0.020000000000000018
AskSumRoundsUp ==
  { <<0, 0, 98>>, <<0, 49, 49>>, <<0, 98>>, <<0, 98, 0>>, <<49, 0, 49>>,
    <<49, 49>>, <<49, 49, 0>>, <<98, 0>>, <<98, 0, 0>> }

\* Bid sequences for which sum(bids) - 1.00, computed in doubles, lies above
\* the decimal difference, among those whose difference equals MIN_MAGNITUDE
\* or the fee hurdle: (0.50 + 0.58) - 1.00 is 0.08000000000000007
BidSumRoundsUp ==
  { <<0, 50, 58>>, <<0, 58, 50>>, <<50, 0, 58>>, <<50, 58>>, <<50, 58, 0>>,
    <<58, 0, 50>>, <<58, 50>>, <<58, 50, 0>> }

\* buy_magnitude > k/100 as evaluated in doubles
buy_gt(asks, k) ==
  LET m == 100 - SumSeq(asks)
  IN m > k \/ (m = k /\ asks \in AskSumRoundsUp)

\* sell_magnitude > k/100 as evaluated in doubles
sell_gt(bids, k) ==
  LET m == SumSeq(bids) - 100
  IN m > k \/ (m = k /\ bids \in BidSumRoundsUp)

\* min(m.get("open_interest", DEFAULT_DEPTH) or DEFAULT_DEPTH for m in available)
RECURSIVE partition_depth(_)
partition_depth(ms) ==
  LET d == IF Head(ms).open_interest \in {NULL, 0} THEN DEFAULT_DEPTH
           ELSE Head(ms).open_interest
  IN IF Len(ms) = 1 THEN d ELSE Min(d, partition_depth(Tail(ms)))

\* the opportunity dict appended by a branch of _check_partition; the price
\* of a leg is the column as stored, None included
PartitionOpportunity(rel, signal, side, magnitude, quotes) ==
  LET depth == partition_depth(rel.members)
  IN [relationship_id |-> rel.id,
      signal |-> signal,
      magnitude |-> magnitude,
      confidence |-> rel.confidence,
      score |-> 2 * magnitude * rel.confidence * Min(depth, 50),
      legs |-> [i \in DOMAIN rel.members |->
                  [ticker |-> Tickers[i], side |-> side, price |-> quotes[i],
                   depth |-> depth]],
      status |-> "DETECTED"]

\* detector._check_partition
check_partition(rel) ==
  LET ms == rel.members
      asks == [i \in DOMAIN ms |-> or0(ms[i].yes_ask)]
      bids == [i \in DOMAIN ms |-> or0(ms[i].yes_bid)]
      buy == IF /\ buy_gt(asks, MIN_MAGNITUDE)
                /\ buy_gt(asks, fee_safety_multiplier * total_fees(asks))
             THEN << PartitionOpportunity(rel, "BUY_ALL_PARTITION", "buy",
                       100 - SumSeq(asks), [i \in DOMAIN ms |-> ms[i].yes_ask]) >>
             ELSE <<>>
      sell == IF /\ sell_gt(bids, MIN_MAGNITUDE)
                 /\ sell_gt(bids, fee_safety_multiplier * total_fees(bids))
              THEN << PartitionOpportunity(rel, "SELL_ALL_PARTITION", "sell",
                        SumSeq(bids) - 100, [i \in DOMAIN ms |-> ms[i].yes_bid]) >>
              ELSE <<>>
  IN IF \E i \in DOMAIN ms : ~ms[i].present THEN Returned_(<<>>)
     ELSE Returned_(buy \o sell)

InitPartition ==
  /\ balance = 0
  /\ daily_pnl = 0
  /\ open_positions = 0
  /\ kill_switch = FALSE
  /\ last_pnl_date = NoDate
  /\ AtRest
  /\ Constructed
  /\ Quiescent
  /\ pc = "check_partition"
  /\ arg \in PartitionRelationships
  /\ ret = <<>>

\* opps = _check_partition(rel, tickers, markets, confidence, fee_safety_multiplier)
CheckPartition ==
  /\ pc = "check_partition"
  /\ ret = <<>>
  /\ ret' = <<check_partition(arg)>>
  /\ UNCHANGED <<programVars, arg, tickVars, layerVars>>

SpecPartition == InitPartition /\ [][CheckPartition]_vars

\* ------------------------------------------------------------------------

\* THRESHOLD relationships (detector._check_threshold)
\* ------------------------------------------------------------------------
\* (yes_ask, yes_bid) of a market of a threshold ladder
ThresholdQuotes ==
  { <<NULL, NULL>>, <<10, 6>>, <<50, 42>>, <<52, 50>>, <<60, 58>>, <<100, 98>> }

ThresholdMarkets ==
  {NoMarket} \cup
  { [present |-> TRUE, yes_ask |-> q[1], yes_bid |-> q[2], open_interest |-> i] :
      q \in ThresholdQuotes, i \in PartitionOpenInterests }

\* THRESHOLD relationships of two to MaxMembers tickers in ascending order
\* of threshold, each with the row of its market or without one
ThresholdRelationships ==
  { [id |-> 1, type |-> "THRESHOLD", confidence |-> 90, members |-> ms] :
      ms \in { s \in SeqsUpTo(ThresholdMarkets, MaxMembers) : Len(s) >= 2 } }

\* f"BUY_{lower_t}_SELL_{higher_t}" for the pair (Tickers[i], Tickers[i + 1])
ThresholdSignal(i) == IF i = 1 THEN "BUY_T1_SELL_T2" ELSE "BUY_T2_SELL_T3"

\* the opportunity dict appended by _check_threshold for the pair (i, i + 1)
ThresholdOpportunity(rel, i, depth) ==
  LET lower_bid == or0(rel.members[i].yes_bid)
      higher_ask == or0(rel.members[i + 1].yes_ask)
      magnitude == higher_ask - lower_bid
  IN [relationship_id |-> rel.id,
      signal |-> ThresholdSignal(i),
      magnitude |-> magnitude,
      confidence |-> rel.confidence,
      score |-> 2 * magnitude * rel.confidence * Min(depth, 50),
      legs |-> << [ticker |-> Tickers[i], side |-> "buy", price |-> lower_bid,
                   depth |-> depth],
                  [ticker |-> Tickers[i + 1], side |-> "sell", price |-> higher_ask,
                   depth |-> depth] >>,
      status |-> "DETECTED"]

\* the loop of _check_threshold from pair i on; opps is the list appended so
\* far.  min() of a NULL open_interest and an integer raises TypeError.
RECURSIVE threshold_loop(_, _, _)
threshold_loop(rel, i, opps) ==
  IF i > Len(rel.members) - 1 THEN Returned_(opps)
  ELSE LET lower == rel.members[i]
           higher == rel.members[i + 1]
           lower_bid == or0(lower.yes_bid)
           higher_ask == or0(higher.yes_ask)
           least == Min(lower.open_interest, higher.open_interest)
           depth == IF least = 0 THEN DEFAULT_DEPTH ELSE least
       IN IF ~lower.present \/ ~higher.present THEN threshold_loop(rel, i + 1, opps)
          ELSE IF ~diff_gt(higher_ask, lower_bid, MIN_MAGNITUDE)
               THEN threshold_loop(rel, i + 1, opps)
          ELSE IF ~is_profitable_after_fees(higher_ask, lower_bid)
               THEN threshold_loop(rel, i + 1, opps)
          ELSE IF lower.open_interest = NULL \/ higher.open_interest = NULL THEN Raised_
          ELSE threshold_loop(rel, i + 1, Append(opps, ThresholdOpportunity(rel, i, depth)))

\* detector._check_threshold
check_threshold(rel) == threshold_loop(rel, 1, <<>>)

InitThreshold ==
  /\ balance = 0
  /\ daily_pnl = 0
  /\ open_positions = 0
  /\ kill_switch = FALSE
  /\ last_pnl_date = NoDate
  /\ AtRest
  /\ Constructed
  /\ Quiescent
  /\ pc = "check_threshold"
  /\ arg \in ThresholdRelationships
  /\ ret = <<>>

\* opps = _check_threshold(rel, tickers, markets, confidence, fee_safety_multiplier)
CheckThreshold ==
  /\ pc = "check_threshold"
  /\ ret = <<>>
  /\ ret' = <<check_threshold(arg)>>
  /\ UNCHANGED <<programVars, arg, tickVars, layerVars>>

SpecThreshold == InitThreshold /\ [][CheckThreshold]_vars

\* ------------------------------------------------------------------------

\* IMPLICATION relationships (detector._check_implication)
\* ------------------------------------------------------------------------
ImplicationConfidences == {50, 69, 70, 90}
ImplicationOpenInterests == {NULL, 0, 60}

\* IMPLICATION relationships [if, then] with the rows of their two markets
ImplicationRelationships ==
  { [id |-> 1, type |-> "IMPLICATION", confidence |-> c,
     if_market |-> [yes_bid |-> a, open_interest |-> i],
     then_market |-> [yes_ask |-> b, open_interest |-> j]] :
      a \in Prices, b \in Prices,
      i \in ImplicationOpenInterests, j \in ImplicationOpenInterests,
      c \in ImplicationConfidences }

\* the opportunity dict built by _check_implication
ImplicationOpportunity(rel, depth) ==
  LET magnitude == rel.if_market.yes_bid - rel.then_market.yes_ask
  IN [relationship_id |-> rel.id,
      signal |-> "BUY_THEN_SELL_IF",
      magnitude |-> magnitude,
      confidence |-> rel.confidence,
      score |-> 2 * magnitude * rel.confidence * Min(depth, 50),
      legs |-> << [ticker |-> "THEN", side |-> "buy",
                   price |-> rel.then_market.yes_ask, depth |-> depth],
                  [ticker |-> "IF", side |-> "sell",
                   price |-> rel.if_market.yes_bid, depth |-> depth] >>,
      status |-> "DETECTED"]

\* detector._check_implication for a relationship whose two markets are
\* present.  min() of a NULL open_interest and an integer raises TypeError.
check_implication(rel) ==
  LET if_bid == rel.if_market.yes_bid
      then_ask == rel.then_market.yes_ask
  IN IF ~diff_gt(if_bid, then_ask, SOFT_THRESHOLD) THEN Returned_(<<>>)
     ELSE IF rel.confidence < 70 THEN Returned_(<<>>)
     ELSE IF ~is_profitable_after_fees(if_bid, then_ask) THEN Returned_(<<>>)
     ELSE IF rel.if_market.open_interest = NULL \/ rel.then_market.open_interest = NULL
          THEN Raised_
     ELSE LET least == Min(rel.if_market.open_interest, rel.then_market.open_interest)
              depth == IF least = 0 THEN DEFAULT_DEPTH ELSE least
          IN Returned_(<<ImplicationOpportunity(rel, depth)>>)

InitImplication ==
  /\ balance = 0
  /\ daily_pnl = 0
  /\ open_positions = 0
  /\ kill_switch = FALSE
  /\ last_pnl_date = NoDate
  /\ AtRest
  /\ Constructed
  /\ Quiescent
  /\ pc = "check_implication"
  /\ arg \in ImplicationRelationships
  /\ ret = <<>>

\* opps = _check_implication(rel, tickers, markets, confidence, fee_safety_multiplier)
CheckImplication ==
  /\ pc = "check_implication"
  /\ ret = <<>>
  /\ ret' = <<check_implication(arg)>>
  /\ UNCHANGED <<programVars, arg, tickVars, layerVars>>

SpecImplication == InitImplication /\ [][CheckImplication]_vars

\* ------------------------------------------------------------------------

\* The four checkers of the detector, each applied to a relationship of its
\* type
\* ------------------------------------------------------------------------
InitDetector ==
  \/ InitSubset
  \/ InitThreshold
  \/ InitPartition
  \/ InitImplication

NextDetector ==
  \/ CheckSubset
  \/ CheckThreshold
  \/ CheckPartition
  \/ CheckImplication

SpecDetector == InitDetector /\ [][NextDetector]_vars

\* ------------------------------------------------------------------------

\* Relationship mapper (src/relationship.py)
\* ------------------------------------------------------------------------
\* Python's order of the ticker strings
TickerRank == [t \in MarketTickers |-> CASE t = "A" -> 1 [] t = "B" -> 2 [] OTHER -> 3]

RECURSIVE insert_sorted(_, _)
insert_sorted(t, s) ==
  IF s = <<>> THEN <<t>>
  ELSE IF TickerRank[t] <= TickerRank[Head(s)] THEN <<t>> \o s
  ELSE <<Head(s)>> \o insert_sorted(t, Tail(s))

\* sorted(tickers)
RECURSIVE sorted(_)
sorted(s) == IF s = <<>> THEN <<>> ELSE insert_sorted(Head(s), sorted(Tail(s)))

\* What _normalise_relationship returns for the proposals of the oracle:
\* tickers in the order of the proposal ([subset, superset] for a SUBSET)
ProposalTickers == { <<"A", "B">>, <<"B", "A">> }
Proposals ==
  { [type |-> ty, tickers |-> tk, confidence |-> c] :
      ty \in {"SUBSET", "PARTITION"}, tk \in ProposalTickers, c \in Confidences }

\* _call_llm(batch): the call raises, or returns a list of proposals
OracleReplies ==
  { [ok |-> FALSE, proposals |-> <<>>] } \cup
  { [ok |-> TRUE, proposals |-> ps] : ps \in SeqsUpTo(Proposals, MaxProposals) }

\* the rows a lookup by the proposal's tickers as proposed would find
existing_unsorted(rels, p) ==
  { i \in DOMAIN rels : rels[i].type = p.type /\ rels[i].tickers = p.tickers }

\* SELECT id FROM relationships WHERE type = %s AND tickers = %s, with
\* tickers_json = json.dumps(sorted(normalised["tickers"]))
existing(rels, p) ==
  { i \in DOMAIN rels : rels[i].type = p.type /\ rels[i].tickers = sorted(p.tickers) }

\* the body of the loop over raw_rels for one proposal at time now, on the
\* table st.rels with last id st.seq: refresh the existing row, or insert
\* the proposal with its tickers sorted
store_proposal(st, p, now) ==
  LET found == existing(st.rels, p)
  IN IF found # {}
     THEN LET i == CHOOSE j \in found : \A k \in found : j <= k
          IN [st EXCEPT !.rels[i].last_validated = now,
                        !.rels[i].confidence = p.confidence]
     ELSE [rels |-> Append(st.rels,
                      [id |-> st.seq + 1, type |-> p.type,
                       tickers |-> sorted(p.tickers), confidence |-> p.confidence,
                       last_validated |-> now, created_at |-> now]),
           seq |-> st.seq + 1]

RECURSIVE store_proposals(_, _, _)
store_proposals(st, ps, now) ==
  IF ps = <<>> THEN st
  ELSE store_proposals(store_proposal(st, Head(ps), now), Tail(ps), now)

\* discover_relationships up to the loop over the batches
DiscoverStart ==
  /\ mpc \in {"idle", "raised"}
  /\ clock < MaxPasses
  /\ mpc' = "batches"
  /\ clock' = clock + 1
  /\ batches' \in 0..MaxBatches
  /\ submitted' = 0
  /\ arg' = <<>>
  /\ UNCHANGED <<programVars, ret, tickVars, threadVars, storeVars, ingestVars>>

\* one round of the loop: _call_llm(batch), then every proposal of the reply
\* is stored.  An exception of the call leaves discover_relationships.
SubmitBatch ==
  /\ mpc = "batches"
  /\ batches > 0
  /\ \E reply \in OracleReplies :
       /\ arg' = reply
       /\ IF reply.ok
          THEN LET st == store_proposals([rels |-> relationships, seq |-> rel_seq],
                                         reply.proposals, clock)
               IN /\ relationships' = st.rels
                  /\ rel_seq' = st.seq
                  /\ batches' = batches - 1
                  /\ submitted' = submitted + 1
                  /\ mpc' = "batches"
          ELSE /\ mpc' = "raised"
               /\ UNCHANGED <<relationships, rel_seq, batches, submitted>>
  /\ UNCHANGED <<programVars, ret, tickVars, threadVars, markets, clock, ingestVars>>

\* return total_new
DiscoverEnd ==
  /\ mpc = "batches"
  /\ batches = 0
  /\ mpc' = "idle"
  /\ UNCHANGED <<programVars, arg, ret, tickVars, threadVars, storeVars, batches, submitted, clock,
                 ingestVars>>

InitMapper ==
  /\ balance = 0
  /\ daily_pnl = 0
  /\ open_positions = 0
  /\ kill_switch = FALSE
  /\ last_pnl_date = NoDate
  /\ AtRest
  /\ Constructed
  /\ Quiescent
  /\ pc = "idle"
  /\ arg = <<>>
  /\ ret = <<>>

NextMapper ==
  \/ DiscoverStart
  \/ SubmitBatch
  \/ DiscoverEnd

SpecMapper == InitMapper /\ [][NextMapper]_vars

\* ------------------------------------------------------------------------

\* cleanup_stale_relationships (src/relationship.py)
\* ------------------------------------------------------------------------
\* status of a market row; "none" is a ticker without a row
MarketStatuses == {"none", "open", "active", "closed"}

\* Tables of at most two rows with distinct keys, ids in insertion order
CleanupRows ==
  { [type |-> "SUBSET", tickers |-> <<"A", "B">>],
    [type |-> "SUBSET", tickers |-> <<"B", "C">>],
    [type |-> "PARTITION", tickers |-> <<"A", "B">>],
    [type |-> "PARTITION", tickers |-> <<"A", "B", "C">>] }
CleanupTables ==
  { [i \in DOMAIN rows |->
       [id |-> i, type |-> rows[i].type, tickers |-> rows[i].tickers,
        confidence |-> 90, last_validated |-> 0, created_at |-> 0]] :
      rows \in { s \in SeqsUpTo(CleanupRows, 2) : Len(s) = 2 => s[1] # s[2] } }

\* a sweep that takes a relationship for live only when every ticker of it is open
every_open(row) ==
  \A i \in DOMAIN row.tickers : markets[row.tickers[i]] \in {"open", "active"}

\* the loop over the tickers of a row: m and m["status"] in ("open", "active")
any_open(row) ==
  \E i \in DOMAIN row.tickers : markets[row.tickers[i]] \in {"open", "active"}

InitCleanup ==
  /\ balance = 0
  /\ daily_pnl = 0
  /\ open_positions = 0
  /\ kill_switch = FALSE
  /\ last_pnl_date = NoDate
  /\ AtRest
  /\ Constructed
  /\ relationships \in CleanupTables
  /\ rel_seq = Len(relationships)
  /\ markets \in [MarketTickers -> MarketStatuses]
  /\ mpc = "idle" /\ batches = 0 /\ submitted = 0 /\ clock = 0
  /\ ipc = "idle" /\ pages = <<>> /\ fetched = <<>> /\ txn = <<>>
  /\ Dormant
  /\ pc = "cleanup_stale_relationships"
  /\ arg = relationships
  /\ ret = <<>>

\* cleanup_stale_relationships(): one transaction that deletes the rows
\* without an open market and returns their number, or is rolled back by an
\* exception of the database
CleanupStale ==
  /\ pc = "cleanup_stale_relationships"
  /\ ret = <<>>
  /\ \/ /\ relationships' = SelectSeq(relationships, any_open)
        /\ ret' = <<Returned_(Len(relationships) - Len(relationships'))>>
     \/ /\ ret' = <<Raised_>>
        /\ UNCHANGED relationships
  /\ UNCHANGED <<programVars, arg, tickVars, threadVars, rel_seq, markets, mapperVars, ingestVars>>

SpecCleanup == InitCleanup /\ [][CleanupStale]_vars

\* ------------------------------------------------------------------------

\* ingest_markets (src/ingestion.py)
\* ------------------------------------------------------------------------
\* What the exchange serves in one cycle: the open markets in pages of one
\* or two, each market with the status the exchange reports for it
PageLayouts ==
  { << <<"A">> >>,
    << <<"A">>, <<"B">> >>,
    << <<"A", "B">>, <<"C">> >>,
    << <<"A">>, <<"B">>, <<"C">> >> }
ExchangePages ==
  { [p \in DOMAIN layout |->
       [k \in DOMAIN layout[p] |->
          [ticker |-> layout[p][k], status |-> status[layout[p][k]]]]] :
      layout \in PageLayouts, status \in [MarketTickers -> {"open", "active"}] }

\* ON CONFLICT (ticker) DO UPDATE: the rows of the table after the upserts
upsert(table, rows) ==
  [t \in MarketTickers |->
     IF \E i \in DOMAIN rows : rows[i].ticker = t
     THEN LET last == CHOOSE i \in DOMAIN rows :
                        /\ rows[i].ticker = t
                        /\ \A j \in DOMAIN rows : rows[j].ticker = t => j <= i
          IN rows[last].status
     ELSE table[t]]

\* markets[i : i + BATCH_SIZE] for the batch after those already upserted
next_batch == SubSeq(fetched, Len(txn) + 1, Min(Len(txn) + BatchLen, Len(fetched)))

\* ingest_markets(client) is called; get_all_markets starts with an empty list
IngestStart ==
  /\ ipc \in {"idle", "raised"}
  /\ ipc' = "get_all_markets"
  /\ pages' \in ExchangePages
  /\ fetched' = <<>>
  /\ txn' = <<>>
  /\ UNCHANGED <<programVars, arg, ret, tickVars, threadVars, storeVars, mapperVars>>

\* One turn of the loop of get_all_markets: the page is added to the list,
\* and the list is returned after the last page; or the request raises
\* after its retries, and the list is lost with the frame of the call
FetchPage ==
  /\ ipc = "get_all_markets"
  /\ \/ /\ fetched' = fetched \o Head(pages)
        /\ pages' = Tail(pages)
        /\ ipc' = IF pages' = <<>> THEN "upsert" ELSE "get_all_markets"
     \/ /\ ipc' = "raised"
        /\ fetched' = <<>>
        /\ pages' = <<>>
  /\ UNCHANGED <<programVars, arg, ret, tickVars, threadVars, storeVars, mapperVars, txn>>

\* One execute_values of the loop over the batches, inside the transaction
\* of get_conn; an exception leaves the with block, which rolls back
UpsertBatch ==
  /\ ipc = "upsert"
  /\ Len(txn) < Len(fetched)
  /\ \/ /\ txn' = txn \o next_batch
        /\ UNCHANGED <<ipc, fetched>>
     \/ /\ ipc' = "raised"
        /\ txn' = <<>>
        /\ fetched' = <<>>
  /\ UNCHANGED <<programVars, arg, ret, tickVars, threadVars, storeVars, mapperVars, pages>>

\* The with block of get_conn ends: conn.commit()
IngestCommit ==
  /\ ipc = "upsert"
  /\ Len(txn) = Len(fetched)
  /\ markets' = upsert(markets, txn)
  /\ ipc' = "idle"
  /\ txn' = <<>>
  /\ fetched' = <<>>
  /\ UNCHANGED <<programVars, arg, ret, tickVars, threadVars, relationships, rel_seq, mapperVars, pages>>

InitIngest ==
  /\ balance = 0
  /\ daily_pnl = 0
  /\ open_positions = 0
  /\ kill_switch = FALSE
  /\ last_pnl_date = NoDate
  /\ AtRest
  /\ Constructed
  /\ Quiescent
  /\ pc = "idle"
  /\ arg = <<>>
  /\ ret = <<>>

NextIngest ==
  \/ IngestStart
  \/ FetchPage
  \/ UpsertBatch
  \/ IngestCommit

SpecIngest == InitIngest /\ [][NextIngest]_vars

\* ------------------------------------------------------------------------

\* MarketCache (cryptoarb/scanner.py)
\* ------------------------------------------------------------------------
\* a refresh that writes the pages into the dict readers are given
new_dict_in_place == cache_markets

\* new_markets: dict = {}: an object of its own
new_dict == refreshes + 2

\* start() has returned: the first refresh is done and the daemon thread and
\* the hot loop run side by side
CacheStarted == refreshes >= 2 \/ (refreshes = 1 /\ cpc = "wait")

\* for m in markets: new_markets[t] = m, the entries tagged with the refresh
add_page(dict, page, gen) ==
  [t \in MarketTickers |->
     IF \E k \in DOMAIN page : page[k] = t THEN gen ELSE dict[t]]

\* _do_refresh begins: start() calls it once, then _loop after every wait
RefreshStart ==
  /\ cpc = "wait"
  /\ refreshes < MaxRefresh
  /\ refreshes' = refreshes + 1
  /\ new_markets' = new_dict
  /\ heap' = [heap EXCEPT ![new_dict] = EmptyDict]
  /\ exchange' \in PageLayouts
  /\ cursor' = 1
  /\ cpc' = "get_markets"
  /\ UNCHANGED <<programVars, arg, ret, tickVars, storeVars, mapperVars, ingestVars, shutdownVars, requestVars, capVars, timerVars,
                 cache_markets, lock, rdr, snap_src, snap, snap_left, published>>

\* One turn of the while loop: the page is written into new_markets, and
\* the loop ends after the last page; or both get_markets calls raise and
\* the loop is left by break
FetchCachePage ==
  /\ cpc = "get_markets"
  /\ \/ /\ heap' = [heap EXCEPT ![new_markets] = add_page(@, exchange[cursor], refreshes)]
        /\ cursor' = cursor + 1
        /\ cpc' = IF cursor' > Len(exchange) THEN "swap" ELSE "get_markets"
     \/ /\ cpc' = "swap"
        /\ UNCHANGED <<heap, cursor>>
  /\ UNCHANGED <<programVars, arg, ret, tickVars, storeVars, mapperVars, ingestVars, shutdownVars, requestVars, capVars, timerVars,
                 cache_markets, new_markets, lock, exchange, refreshes,
                 rdr, snap_src, snap, snap_left, published>>

\* with self._lock: self._markets = new_markets
Swap ==
  /\ cpc = "swap"
  /\ lock = "free"
  /\ cache_markets' = new_markets
  /\ published' = published \cup {heap[new_markets]}
  /\ cpc' = "wait"
  /\ UNCHANGED <<programVars, arg, ret, tickVars, storeVars, mapperVars, ingestVars, shutdownVars, requestVars, capVars, timerVars,
                 heap, new_markets, lock, exchange, cursor, refreshes,
                 rdr, snap_src, snap, snap_left>>

\* snapshot(): the lock is taken and self._markets is evaluated
SnapshotEnter ==
  /\ CacheStarted
  /\ rdr = "idle"
  /\ lock = "free"
  /\ lock' = "reader"
  /\ snap_src' = cache_markets
  /\ snap' = EmptyDict
  /\ snap_left' = <<"A", "B", "C">>
  /\ rdr' = "copy"
  /\ UNCHANGED <<programVars, arg, ret, tickVars, storeVars, mapperVars, ingestVars, shutdownVars, requestVars, capVars, timerVars,
                 heap, cache_markets, new_markets, cpc, exchange, cursor, refreshes,
                 published>>

\* dict(...) copies one entry of the object
SnapshotCopy ==
  /\ rdr = "copy"
  /\ snap_left # <<>>
  /\ snap' = [snap EXCEPT ![Head(snap_left)] = heap[snap_src][Head(snap_left)]]
  /\ snap_left' = Tail(snap_left)
  /\ UNCHANGED <<programVars, arg, ret, tickVars, storeVars, mapperVars, ingestVars, shutdownVars, requestVars, capVars, timerVars,
                 heap, cache_markets, new_markets, lock, cpc, exchange, cursor, refreshes,
                 rdr, snap_src, published>>

\* the copy is returned and the lock released
SnapshotReturn ==
  /\ rdr = "copy"
  /\ snap_left = <<>>
  /\ lock' = "free"
  /\ rdr' = "returned"
  /\ UNCHANGED <<programVars, arg, ret, tickVars, storeVars, mapperVars, ingestVars, shutdownVars, requestVars, capVars, timerVars,
                 heap, cache_markets, new_markets, cpc, exchange, cursor, refreshes,
                 snap_src, snap, snap_left, published>>

\* scan_contracts has gone through the copy; the hot loop goes on
SnapshotDone ==
  /\ rdr = "returned"
  /\ rdr' = "idle"
  /\ UNCHANGED <<programVars, arg, ret, tickVars, storeVars, mapperVars, ingestVars, shutdownVars, requestVars, capVars, timerVars,
                 heap, cache_markets, new_markets, lock, cpc, exchange, cursor, refreshes,
                 snap_src, snap, snap_left, published>>

InitCache ==
  /\ balance = 0
  /\ daily_pnl = 0
  /\ open_positions = 0
  /\ kill_switch = FALSE
  /\ last_pnl_date = NoDate
  /\ AtRest
  /\ Constructed
  /\ Quiescent
  /\ pc = "idle"
  /\ arg = <<>>
  /\ ret = <<>>

NextCache ==
  \/ RefreshStart
  \/ FetchCachePage
  \/ Swap
  \/ SnapshotEnter
  \/ SnapshotCopy
  \/ SnapshotReturn
  \/ SnapshotDone

SpecCache == InitCache /\ [][NextCache]_vars

\* ------------------------------------------------------------------------

\* taker_fee (src/fees.py)
\* ------------------------------------------------------------------------
\* contracts and prices in cents, the degenerate ones included
FeeCounts == {-5, 0, 1, 2, 3, 10, 50, 100}
FeePrices == -1..101

InitFees ==
  /\ balance = 0
  /\ daily_pnl = 0
  /\ open_positions = 0
  /\ kill_switch = FALSE
  /\ last_pnl_date = NoDate
  /\ AtRest
  /\ Constructed
  /\ Quiescent
  /\ pc = "taker_fee"
  /\ arg \in [count : FeeCounts, price : FeePrices]
  /\ ret = <<>>

\* taker_fee(count, price) returns
TakerFee ==
  /\ pc = "taker_fee"
  /\ ret = <<>>
  /\ ret' = <<taker_fee(arg.count, arg.price)>>
  /\ UNCHANGED <<programVars, arg, tickVars, layerVars>>

SpecFees == InitFees /\ [][TakerFee]_vars

\* ------------------------------------------------------------------------

\* Orchestrator.run: the end of the loop and shutdown (main.py)
\* ------------------------------------------------------------------------
\* a shutdown that returns without closing the pool
Shutdown_without_drain ==
  /\ tpc = "shutdown"
  /\ notifications' = notifications + 1
  /\ tpc' = "exited"
  /\ UNCHANGED <<programVars, arg, ret, running, elapsed, ingest_age, due, ran, raised,
                 signalled, storeVars, mapperVars, ingestVars, cacheVars, requestVars, capVars, timerVars, pool>>

\* while self.running is false after the sleep: the loop ends and the
\* finally clause calls shutdown()
LoopExit ==
  /\ tpc = "sleep"
  /\ ~running
  /\ tpc' = "shutdown"
  /\ UNCHANGED <<programVars, layerVars, arg, ret, running, elapsed, ingest_age, due, ran,
                 raised, signalled>>

\* shutdown(): running = False; alerts.send_shutdown_alert("normal")
Shutdown ==
  /\ tpc = "shutdown"
  /\ notifications' = notifications + 1
  /\ tpc' = "close_pool"
  /\ UNCHANGED <<programVars, arg, ret, running, elapsed, ingest_age, due, ran, raised,
                 signalled, storeVars, mapperVars, ingestVars, cacheVars, requestVars, capVars, timerVars, pool>>

\* db.close_pool(); shutdown, run and main return
ClosePool ==
  /\ tpc = "close_pool"
  /\ pool' = "closed"
  /\ tpc' = "exited"
  /\ UNCHANGED <<programVars, arg, ret, running, elapsed, ingest_age, due, ran, raised,
                 signalled, storeVars, mapperVars, ingestVars, cacheVars, requestVars, capVars, timerVars, notifications>>

\* the steps of the main thread
MainThread ==
  \/ TickStart
  \/ Ingest
  \/ RelEvent
  \/ RelCategory
  \/ Scan
  \/ TickSync
  \/ DailySummary
  \/ LoopExit
  \/ Shutdown
  \/ ClosePool

NextRun ==
  \/ HandleSignal
  \/ MainThread

\* Every call of the main thread returns (the requests have timeouts), so
\* the main thread goes on as long as it has a step
SpecRun == InitTick /\ [][NextRun]_vars /\ WF_vars(MainThread)

\* ------------------------------------------------------------------------

\* KalshiClient._request (src/kalshi_client.py)
\* ------------------------------------------------------------------------
\* What one HTTP attempt meets: a 2xx reply with a body, a 2xx reply without
\* content, a transport error or timeout, a 5xx or 4xx status, or HTTP 429
AttemptOutcomes == {"ok", "empty", "timeout", "5xx", "4xx", "429"}

\* the value _request hands to its caller for the outcome of the attempt
\* just made: nothing yet (the loop goes on), a value, or an exception
request_step(outcome, n) ==
  CASE outcome = "ok" -> <<Returned_("response")>>
    [] outcome = "empty" -> <<Returned_("{}")>>
    [] outcome = "429" -> IF n = max_retries THEN <<Returned_("None")>> ELSE <<>>
    [] OTHER -> IF n = max_retries THEN <<Raised_>> ELSE <<>>

InitRequest ==
  /\ balance = 0
  /\ daily_pnl = 0
  /\ open_positions = 0
  /\ kill_switch = FALSE
  /\ last_pnl_date = NoDate
  /\ AtRest
  /\ Constructed
  /\ Quiescent
  /\ pc = "_request"
  /\ arg \in [1..max_retries -> AttemptOutcomes]
  /\ ret = <<>>

\* One turn of the loop for attempt in range(1, self._max_retries + 1):
\* self._limiter.acquire(), then the request
Attempt ==
  /\ pc = "_request"
  /\ ret = <<>>
  /\ attempt < max_retries
  /\ attempt' = attempt + 1
  /\ tokens' = tokens + 1
  /\ ret' = request_step(arg[attempt'], attempt')
  /\ UNCHANGED <<programVars, arg, tickVars, storeVars, mapperVars, ingestVars,
                 cacheVars, shutdownVars, capVars, timerVars, accepted>>

SpecRequest == InitRequest /\ [][Attempt]_vars

\* ------------------------------------------------------------------------

\* KalshiClient.place_order through _request (src/kalshi_client.py)
\* ------------------------------------------------------------------------
\* What one POST /portfolio/orders meets: the order is created and the
\* reply arrives; the order is created and the reply is lost (a timeout or
\* an error status after the exchange took the order); or the request fails
\* before the exchange takes it
PostOutcomes == {"ok", "lost", "timeout", "5xx", "429"}

\* the body of place_order carries no client_order_id: the exchange
\* creates an order for every request it takes
order_created(outcome) == outcome \in {"ok", "lost"}

InitPlaceOrder ==
  /\ balance = 0
  /\ daily_pnl = 0
  /\ open_positions = 0
  /\ kill_switch = FALSE
  /\ last_pnl_date = NoDate
  /\ AtRest
  /\ Constructed
  /\ Quiescent
  /\ pc = "place_order"
  /\ arg \in [1..max_retries -> PostOutcomes]
  /\ ret = <<>>

\* One attempt of the POST of place_order, sent again with the same body
\* after a failure
PostAttempt ==
  /\ pc = "place_order"
  /\ ret = <<>>
  /\ attempt < max_retries
  /\ attempt' = attempt + 1
  /\ tokens' = tokens + 1
  /\ accepted' = IF order_created(arg[attempt']) THEN accepted + 1 ELSE accepted
  /\ ret' = request_step(IF arg[attempt'] = "lost" THEN "timeout" ELSE arg[attempt'], attempt')
  /\ UNCHANGED <<programVars, arg, tickVars, storeVars, mapperVars, ingestVars,
                 cacheVars, shutdownVars, capVars, timerVars>>

SpecPlaceOrder == InitPlaceOrder /\ [][PostAttempt]_vars

\* ------------------------------------------------------------------------

\* The position cap over the opportunities of a detection cycle (main.py)
\* ------------------------------------------------------------------------
\* positions open on the exchange when the bot starts
CapPositions == {0, 8, 9, 10}

\* Orchestrator.run has made its first sync
InitCap ==
  /\ balance = 10000
  /\ daily_pnl = 0
  /\ open_positions \in CapPositions
  /\ kill_switch = FALSE
  /\ last_pnl_date = 0
  /\ AtRest
  /\ Constructed
  /\ relationships = <<>>
  /\ rel_seq = 0
  /\ markets = [t \in MarketTickers |-> "none"]
  /\ mpc = "idle" /\ batches = 0 /\ submitted = 0 /\ clock = 0
  /\ ipc = "idle" /\ pages = <<>> /\ fetched = <<>> /\ txn = <<>>
  /\ CacheConstructed
  /\ notifications = 0 /\ pool = "open"
  /\ attempt = 0 /\ tokens = 0 /\ accepted = 0
  /\ tick_now = 0
  /\ last_run = [t \in Timers |-> DatetimeMin]
  /\ task_outcome = [t \in Timers |-> "none"]
  /\ positions = open_positions
  /\ synced = open_positions
  /\ started = 0
  /\ pc = "idle"
  /\ arg = 0
  /\ ret = <<>>

\* 4. scan_for_violations returns the opportunities of this cycle
CycleScan ==
  /\ pc = "idle"
  /\ arg = 0
  /\ arg' \in 1..MaxOpps
  /\ UNCHANGED <<programVars, ret, tickVars, storeVars, mapperVars, ingestVars,
                 cacheVars, shutdownVars, requestVars, capVars, timerVars>>

\* for opp in opportunities: self.executor.execute_opportunity(opp).  The
\* pre-flight check reads _open_positions; an execution that is started may
\* open a position on the exchange (followed up to MaxOpps above the cap),
\* and does not touch _open_positions
CycleExecute ==
  /\ pc = "idle"
  /\ arg > 0
  /\ arg' = arg - 1
  /\ IF can_trade /\ started < MaxStarted
     THEN /\ started' = started + 1
          /\ positions' \in {positions, Min(positions + 1, max_open_positions + MaxOpps)}
     ELSE UNCHANGED <<positions, started>>
  /\ UNCHANGED <<programVars, ret, tickVars, storeVars, mapperVars, ingestVars,
                 cacheVars, shutdownVars, requestVars, timerVars, synced>>

\* 5. portfolio.sync() in a tick that ingested: _open_positions is the
\* number of positions the exchange reports, or stays when the call raises
CycleSync ==
  /\ pc = "idle"
  /\ arg = 0
  /\ \E ok \in BOOLEAN :
       open_positions' = IF ok THEN positions ELSE open_positions
  /\ synced' = open_positions'
  /\ started' = 0
  /\ UNCHANGED <<balance, daily_pnl, kill_switch, last_pnl_date, portfolio_state,
                 opp_status, trades, today, exch, dry_run, frameVars, apiCalls, dbRaised,
                 killLatched, nFills, arg, ret, tickVars, storeVars, mapperVars, ingestVars,
                 cacheVars, shutdownVars, requestVars, timerVars, positions>>

NextCap ==
  \/ CycleScan
  \/ CycleExecute
  \/ CycleSync

SpecCap == InitCap /\ [][NextCap]_vars

\* ------------------------------------------------------------------------

\* The timers of Orchestrator._tick (main.py)
\* ------------------------------------------------------------------------
\* The intervals of the five timed blocks, in the order 15 s < 60 s < 24 h
\* = 24 h < 72 h of the configuration, scaled to the seconds followed
Period ==
  [t \in Timers |->
     CASE t = "scan" -> 2
       [] t = "ingest" -> 3
       [] t = "rel_event" -> 4
       [] t = "summary" -> 4
       [] t = "rel_category" -> 6]

\* What a timed block does when it is due: it completes; it raises before
\* its timer is set; or, for the detection block, it raises in the loop over
\* the opportunities, after self._last_scan = now
TaskOutcomes(t) ==
  IF t = "scan" THEN {"ok", "raised", "raised_after"} ELSE {"ok", "raised"}

\* a timer that is set in any case
timer_after_always(prev, t_now, o) == t_now

\* try: task(); self._last_x = now / except Exception: the timer of a block
\* after it ran at t_now with outcome o
timer_after(prev, t_now, o) == IF o = "raised" THEN prev ELSE t_now

\* if now - self._last_x >= interval
is_due(t, t_now) == t_now - last_run[t] >= Period[t]

InitTimers ==
  /\ balance = 0
  /\ daily_pnl = 0
  /\ open_positions = 0
  /\ kill_switch = FALSE
  /\ last_pnl_date = NoDate
  /\ AtRest
  /\ Constructed
  /\ Quiescent
  /\ pc = "idle"
  /\ arg = <<>>
  /\ ret = <<>>

\* One _tick(now), a second or more after the one before: every block
\* whose interval has elapsed runs, with the same now
Tick ==
  /\ \E d \in 1..2 :
       /\ tick_now + d <= MaxNow
       /\ tick_now' = tick_now + d
  /\ \E o \in [Timers -> {"ok", "raised", "raised_after"}] :
       /\ \A t \in Timers : o[t] \in TaskOutcomes(t)
       /\ task_outcome' = [t \in Timers |-> IF is_due(t, tick_now') THEN o[t] ELSE "none"]
       /\ last_run' = [t \in Timers |->
                     IF is_due(t, tick_now') THEN timer_after(last_run[t], tick_now', o[t]) ELSE last_run[t]]
  /\ UNCHANGED <<programVars, arg, ret, tickVars, storeVars, mapperVars, ingestVars,
                 cacheVars, shutdownVars, requestVars, capVars>>

SpecTimers == InitTimers /\ [][Tick]_vars

\* ------------------------------------------------------------------------

\* Properties
\* ------------------------------------------------------------------------
InCall == pc # "idle"
TwoLegCall == InCall /\ preflight /\ ~IsPartition(Opportunity(cur))
MultiLegCall == InCall /\ preflight /\ IsPartition(Opportunity(cur))
Returned == pc = "returned"
LegPcs == {"place1", "wait1", "cancel1", "place2", "wait2", "cancel2",
           "mplace", "mpoll", "mcancel"}
\* _execute_two_leg / _execute_multi_leg has returned or raised
LegsDone == pc \in {"final", "except", "returned", "raised"}
Member(x, seq) == \E i \in DOMAIN seq : seq[i] = x
Order(id) == exch[id[2]]

\* C1: a call of execute_opportunity made while the kill switch is on, or
\* daily_pnl <= -max_daily_loss, or open_positions >= max_open_positions, or
\* the position size is <= 0, returns false at once: no exchange call, no
\* Trade row, and the persisted opportunity status is left as it was.
C1_RefusedCallHasNoEffect ==
  [][ (pc = "idle" /\ pc' # "idle"
       /\ (\/ kill_switch
           \/ daily_pnl <= -max_daily_loss
           \/ open_positions >= max_open_positions
           \/ calculate_position_size(Opportunity(cur')) <= 0))
      => /\ pc' = "returned"
         /\ result' = "false"
         /\ apiCalls' = NoCalls
         /\ exch' = exch
         /\ trades' = trades
         /\ opp_status' = opp_status ]_vars

\* a live call refused exactly at the daily-loss limit, all else permitting
C1_Witness ==
  /\ Returned /\ ~preflight /\ ~dry_run /\ result = "false"
  /\ daily_pnl = -max_daily_loss /\ ~kill_switch
  /\ open_positions < max_open_positions /\ balance > 0
  /\ opp_status[cur] = "DETECTED" /\ trades = <<>> /\ apiCalls = NoCalls

\* C2: once the kill switch has been activated and persisted, can_trade() is
\* false in every later state up to the next deactivate_kill_switch, also
\* after a restart whose initial sync fails.
C2_KillSwitchHoldsUntilDeactivated == killLatched => ~can_trade

\* C3: in a call that passed pre-flight the persisted status is EXECUTING
\* while the legs are executed, and when the call returns it is FILLED or
\* FAILED, FILLED exactly when the call returns true.
C3_StatusStateMachine ==
  /\ (pc \in LegPcs => opp_status[cur] = "EXECUTING")
  /\ (Returned /\ preflight =>
        /\ opp_status[cur] \in {"FILLED", "FAILED"}
        /\ (result = "true" <=> opp_status[cur] = "FILLED")
        /\ result \in {"true", "false"})

\* a dry-run call that returned false after insert_trade raised during a leg
C3_Witness ==
  /\ Returned /\ preflight /\ dry_run /\ dbRaised
  /\ result = "false" /\ opp_status[cur] = "FAILED"
  /\ Len(trades) - startTrades < Len(Legs)

\* C4: a live multi-leg execution is marked FILLED only if every leg of the
\* opportunity was placed and observed filled.
C4_FilledOnlyIfEveryLegFilled ==
  (MultiLegCall /\ ~dry_run /\ Returned /\ opp_status[cur] = "FILLED")
    => (Len(filled) = Len(Legs))

\* C5: in a live two-leg execution a second order exists only when the first
\* one is filled and was observed so, and its count is the filled quantity
\* the exchange reported for leg 1.
C5_Leg2AfterLeg1FillSizedToFill ==
  (TwoLegCall /\ ~dry_run /\ Len(exch) >= 2)
    => /\ exch[1].status = "filled"
       /\ filled_count = exch[1].filled_count
       /\ exch[2].count = exch[1].filled_count
       /\ Len(orders) >= 1 /\ orders[1] = ExId(1)

\* leg 2 placed for a leg 1 that filled with less than the sized count
C5_Witness ==
  /\ TwoLegCall /\ ~dry_run /\ Len(exch) = 2
  /\ exch[1].filled_count < count
  /\ exch[2].count = exch[1].filled_count

\* C6: when the wait for leg 1 of a live two-leg execution ends without an
\* observed fill, leg 1 has had a cancellation requested, no second order
\* exists, and the call ends FAILED.
C6_Leg1NotFilled ==
  (TwoLegCall /\ ~dry_run /\ LegsDone /\ Len(orders) = 1 /\ filled_count = 0)
    => /\ Order(orders[1]).cancels = 1
       /\ apiCalls.cancel = 1
       /\ Len(exch) = 1 /\ apiCalls.place = 1
       /\ ~success
       /\ (Returned => result = "false" /\ opp_status[cur] = "FAILED")

\* leg 1 expired on the exchange, was cancelled, and the call returned false
C6_Witness ==
  /\ TwoLegCall /\ ~dry_run /\ Returned /\ Len(orders) = 1 /\ filled_count = 0
  /\ exch[1].status = "expired" /\ exch[1].cancels = 1
  /\ opp_status[cur] = "FAILED"

\* C7: one call on a two-leg opportunity submits at most two orders; when
\* leg 1 filled and the wait for leg 2 ends without an observed fill, leg 2
\* has had a cancellation requested, leg 1 has not, and the call ends FAILED.
C7_Leg2NotFilledNoChase ==
  /\ (TwoLegCall => apiCalls.place <= 2 /\ Len(exch) <= 2)
  /\ (TwoLegCall /\ ~dry_run /\ LegsDone /\ Len(orders) = 2 /\ ~success)
       => /\ Order(orders[2]).cancels = 1
          /\ Order(orders[1]).cancels = 0
          /\ apiCalls.cancel = 1
          /\ apiCalls.place = 2
          /\ (Returned => result = "false" /\ opp_status[cur] = "FAILED")

\* leg 1 filled, leg 2 still resting after the last poll, then cancelled
C7_Witness ==
  /\ TwoLegCall /\ ~dry_run /\ Returned /\ Len(orders) = 2 /\ ~success
  /\ exch[1].status = "filled" /\ exch[2].status = "canceled" /\ exch[2].cancels = 1
  /\ opp_status[cur] = "FAILED"

C10_RerunOnFilledIsNoOp ==
  (InCall /\ startStatus = "FILLED")
    => /\ opp_status[cur] = "FILLED"
       /\ apiCalls = NoCalls
       /\ Len(trades) = startTrades

\* C11: in a live two-leg call, when place_order raised for leg 1 or leg 2
\* the exception does not leave execute_opportunity, no cancellation is
\* requested (a filled leg 1 stays in place) and the call ends FAILED; when
\* a cancellation was requested, whether it raised or not, it was requested
\* once and the call ends FAILED.
C11_ExchangeExceptionsYieldFailed ==
  (TwoLegCall /\ ~dry_run) =>
    /\ (apiCalls.place > Len(exch)) =>
         /\ LegsDone /\ ~success
         /\ apiCalls.cancel = 0
         /\ \A i \in DOMAIN exch : exch[i].cancels = 0 /\ exch[i].status = "filled"
         /\ (pc = "raised" => dbRaised)
         /\ (Returned => result = "false" /\ opp_status[cur] = "FAILED")
    /\ (apiCalls.cancel > 0) =>
         /\ LegsDone /\ ~success
         /\ apiCalls.cancel = 1
         /\ (pc = "raised" => dbRaised)
         /\ (Returned => result = "false" /\ opp_status[cur] = "FAILED")

\* place_order raised for leg 2 after leg 1 had filled; the call returned false
C11_Witness ==
  /\ TwoLegCall /\ ~dry_run /\ Returned
  /\ apiCalls.place = 2 /\ Len(exch) = 1 /\ exch[1].status = "filled"
  /\ result = "false" /\ opp_status[cur] = "FAILED"

\* C12: after an order of the executor is filled, daily_pnl has been
\* decreased by price*count + fees for a buy: in the first call that
\* observes a fill, once the buy of leg 1 is observed filled the daily_pnl
\* (zero when the call passed pre-flight) is minus that cost.
C12_FillsFeedDailyLossGate ==
  (TwoLegCall /\ ~dry_run /\ pc = "place2" /\ startTrades = 0
     /\ Legs[1].side = "buy")
    => daily_pnl = 0 - (Legs[1].price * filled_count
                          + taker_fee(filled_count, Legs[1].price))

\* C13: calculate_position_size returns
\* max(0, min(floor(balance * max_risk_pct / magnitude), smallest leg depth,
\* max_contracts_per_trade)), and 0 when magnitude <= 0 or there is no leg.
C13_PositionSizeFormula ==
  (pc = "size" /\ ret # <<>>) =>
    ret[1] = IF arg.magnitude <= 0 \/ arg.legs = <<>> THEN 0
             ELSE Max(0, Min(risk_based_exact(balance, arg.magnitude),
                             Min(MinDepth(arg.legs), max_contracts_per_trade)))

\* the size is in [0, max_contracts_per_trade], at most the shallowest depth,
\* and 0 when magnitude <= 0 or there is no leg
C13_PositionSizeBounds ==
  (pc = "size" /\ ret # <<>>) =>
    /\ ret[1] \in 0..max_contracts_per_trade
    /\ \A i \in DOMAIN arg.legs : ret[1] <= arg.legs[i].depth
    /\ (arg.magnitude <= 0 \/ arg.legs = <<>>) => ret[1] = 0
    /\ ret[1] <= Max(0, risk_based_exact(balance, arg.magnitude + (IF arg.magnitude = 0 THEN 1 ELSE 0)))

\* C14: in live mode every order submitted through place_order has its
\* Trade row written by the time the exchange call is over, whatever its
\* outcome: the call has written as many Trade rows as it made place_order
\* calls.
C14_TradeRowForEveryPlacement ==
  (InCall /\ ~dry_run) => Len(trades) - startTrades = apiCalls.place

\* C15: the Trade row of an order the executor observed filled has
\* order_status filled and the filled quantity: when a live call returns
\* true (every order it tracks was observed filled), each Trade row it wrote
\* says so.
C15_TradeRowUpdatedOnFill ==
  (InCall /\ preflight /\ ~dry_run /\ Returned /\ result = "true") =>
    \A i \in (startTrades + 1)..Len(trades) :
      /\ trades[i].order_status = "filled"
      /\ trades[i].filled_count = Order(trades[i].order_id).filled_count

\* C16: for every opportunity whose status is FILLED the tickers of its
\* Trade rows are the tickers of its legs, and the rows of the call that
\* marked it FILLED have the sized count (leg 2 of a two-leg trade: the
\* filled quantity of leg 1).
C16_FilledOpportunityOwnsItsLegs ==
  /\ \A o \in Opps :
       opp_status[o] = "FILLED" =>
         { trades[i].ticker : i \in { j \in DOMAIN trades : trades[j].opportunity_id = o } }
           = { Opportunity(o).legs[k].ticker : k \in DOMAIN Opportunity(o).legs }
  /\ (Returned /\ preflight /\ opp_status[cur] = "FILLED") =>
       \A i \in (startTrades + 1)..Len(trades) :
         trades[i].count = IF ~IsPartition(Opportunity(cur)) /\ i = startTrades + 2
                           THEN filled_count ELSE count

\* C17: over syncs, record_fills and restarts, daily_pnl is reset to zero
\* exactly when the date has changed since the previous reset: a step that
\* moves the reset date zeroes daily_pnl, and a step other than a
\* record_fill changes daily_pnl only when the date differs from the date of
\* the previous reset.
C17_DailyPnlResetOnlyOnDateChange ==
  [][ /\ (last_pnl_date' # last_pnl_date /\ last_pnl_date' # NoDate) => daily_pnl' = 0
      /\ (daily_pnl' # daily_pnl /\ nFills' = nFills) => last_pnl_date # today ]_vars

C19_ScanSortedByDescendingScore ==
  (pc = "scan_for_violations" /\ ret # <<>>) =>
    \A i, j \in DOMAIN ret[1].value :
      i < j => ret[1].value[i].score >= ret[1].value[j].score

\* C20: for a SUBSET relationship [sub, sup] with both markets present the
\* detector emits an opportunity if and only if sub.yes_ask - sup.yes_bid
\* exceeds 0.02 and the fee hurdle; the opportunity has signal
\* BUY_SUPERSET_SELL_SUBSET, that difference as magnitude and the legs
\* [buy sup at sup.yes_bid, sell sub at sub.yes_ask]; otherwise it emits
\* nothing.
C20_SubsetDetection ==
  (pc = "check_subset" /\ ret # <<>>) =>
    LET a == arg.sub.yes_ask
        b == arg.sup.yes_bid
        opps == ret[1].value
    IN /\ ~ret[1].raised
       /\ IF a - b > MIN_MAGNITUDE /\ exact_fee_hurdle(a, b)
          THEN /\ Len(opps) = 1
               /\ opps[1].signal = "BUY_SUPERSET_SELL_SUBSET"
               /\ opps[1].magnitude = a - b
               /\ Len(opps[1].legs) = 2
               /\ opps[1].legs[1].ticker = "SUP" /\ opps[1].legs[1].side = "buy"
               /\ opps[1].legs[1].price = b
               /\ opps[1].legs[2].ticker = "SUB" /\ opps[1].legs[2].side = "sell"
               /\ opps[1].legs[2].price = a
          ELSE opps = <<>>

\* the SUBSET relationship of test_violation_detected: SUB asks 0.65, SUP
\* bids 0.50, open interest 50 on both, confidence 0.9 (SUB's bid and SUP's
\* ask are not read by _check_subset)
C21_Input ==
  /\ pc = "check_subset"
  /\ arg.sub.yes_ask = 65 /\ arg.sub.open_interest = 50
  /\ arg.sup.yes_bid = 50 /\ arg.sup.open_interest = 50
  /\ arg.confidence = 90

\* C21 (original): for these inputs the detector emits exactly one
\* opportunity, with signal BUY_SUPERSET_SELL_SUBSET, magnitude 0.13 and
\* legs [buy SUP @ 0.50, sell SUB @ 0.65].
C21_SubsetExampleMagnitude13 ==
  (C21_Input /\ ret # <<>>) =>
    /\ ~ret[1].raised
    /\ Len(ret[1].value) = 1
    /\ ret[1].value[1].signal = "BUY_SUPERSET_SELL_SUBSET"
    /\ ret[1].value[1].magnitude = 13
    /\ ret[1].value[1].legs =
         << [ticker |-> "SUP", side |-> "buy", price |-> 50, depth |-> 50],
            [ticker |-> "SUB", side |-> "sell", price |-> 65, depth |-> 50] >>

\* C21 (amended): for these inputs the detector emits exactly one
\* opportunity, with signal BUY_SUPERSET_SELL_SUBSET, magnitude 0.15 (the
\* difference 0.65 - 0.50 of the two leg prices), score 0.135 and legs
\* [buy SUP @ 0.50, sell SUB @ 0.65], each with depth 50.
C21_SubsetExample ==
  (C21_Input /\ ret # <<>>) =>
    /\ ~ret[1].raised
    /\ Len(ret[1].value) = 1
    /\ ret[1].value[1].signal = "BUY_SUPERSET_SELL_SUBSET"
    /\ ret[1].value[1].magnitude = 15
    /\ ret[1].value[1].score = 135000
    /\ ret[1].value[1].legs =
         << [ticker |-> "SUP", side |-> "buy", price |-> 50, depth |-> 50],
            [ticker |-> "SUB", side |-> "sell", price |-> 65, depth |-> 50] >>

\* _check_subset has returned for the inputs of the example
C21_Witness ==
  /\ C21_Input
  /\ ret # <<>>
  /\ ~ret[1].raised
  /\ Len(ret[1].value) = 1

\* C22: for a PARTITION relationship the detector emits nothing unless
\* every participating ticker has a market record; when all are present it
\* emits a BUY_ALL_PARTITION opportunity (one buy leg per member at its
\* yes_ask, magnitude 1 - sum of asks) iff 1 - sum of asks > 0.02 and the
\* fee hurdle passes, and a SELL_ALL_PARTITION opportunity (one sell leg per
\* member at its yes_bid, magnitude sum of bids - 1) iff sum of bids - 1 >
\* 0.02 and the fee hurdle passes.
C22_PartitionDetection ==
  (pc = "check_partition" /\ ret # <<>>) =>
    LET ms == arg.members
        asks == [i \in DOMAIN ms |-> or0(ms[i].yes_ask)]
        bids == [i \in DOMAIN ms |-> or0(ms[i].yes_bid)]
        opps == ret[1].value
        emitted(signal) == { k \in DOMAIN opps : opps[k].signal = signal }
        all_present == \A i \in DOMAIN ms : ms[i].present
        buy_due == /\ all_present
                   /\ 100 - SumSeq(asks) > MIN_MAGNITUDE
                   /\ 100 - SumSeq(asks) > fee_safety_multiplier * total_fees(asks)
        sell_due == /\ all_present
                    /\ SumSeq(bids) - 100 > MIN_MAGNITUDE
                    /\ SumSeq(bids) - 100 > fee_safety_multiplier * total_fees(bids)
    IN /\ ~ret[1].raised
       /\ \A k \in DOMAIN opps : opps[k].signal \in {"BUY_ALL_PARTITION", "SELL_ALL_PARTITION"}
       /\ Cardinality(emitted("BUY_ALL_PARTITION")) = IF buy_due THEN 1 ELSE 0
       /\ Cardinality(emitted("SELL_ALL_PARTITION")) = IF sell_due THEN 1 ELSE 0
       /\ \A k \in emitted("BUY_ALL_PARTITION") :
            /\ opps[k].magnitude = 100 - SumSeq(asks)
            /\ Len(opps[k].legs) = Len(ms)
            /\ \A i \in DOMAIN ms :
                 /\ opps[k].legs[i].side = "buy"
                 /\ opps[k].legs[i].ticker = Tickers[i]
                 /\ opps[k].legs[i].price = ms[i].yes_ask
       /\ \A k \in emitted("SELL_ALL_PARTITION") :
            /\ opps[k].magnitude = SumSeq(bids) - 100
            /\ Len(opps[k].legs) = Len(ms)
            /\ \A i \in DOMAIN ms :
                 /\ opps[k].legs[i].side = "sell"
                 /\ opps[k].legs[i].ticker = Tickers[i]
                 /\ opps[k].legs[i].price = ms[i].yes_bid

\* C23: for an IMPLICATION relationship [if, then] the detector never emits
\* an opportunity when the confidence is below 0.7 or when
\* if.yes_bid - then.yes_ask <= 0.08; when it does emit, the signal is
\* BUY_THEN_SELL_IF with legs [buy then at then.yes_ask, sell if at
\* if.yes_bid].
C23_ImplicationGates ==
  (pc = "check_implication" /\ ret # <<>>) =>
    LET opps == ret[1].value
    IN /\ (arg.confidence < 70 => opps = <<>>)
       /\ (arg.if_market.yes_bid - arg.then_market.yes_ask <= SOFT_THRESHOLD => opps = <<>>)
       /\ \A k \in DOMAIN opps :
            /\ opps[k].signal = "BUY_THEN_SELL_IF"
            /\ Len(opps[k].legs) = 2
            /\ opps[k].legs[1].ticker = "THEN" /\ opps[k].legs[1].side = "buy"
            /\ opps[k].legs[1].price = arg.then_market.yes_ask
            /\ opps[k].legs[2].ticker = "IF" /\ opps[k].legs[2].side = "sell"
            /\ opps[k].legs[2].price = arg.if_market.yes_bid

\* C24: every opportunity emitted by the detector, of any variant,
\* satisfies magnitude > safety_multiplier * (sum over its legs of
\* taker_fee(1, leg price)), hence exceeds twice the largest single-leg
\* one-contract fee; a violation that fails this hurdle is never emitted or
\* persisted.  Stated for the opportunities that pass the min_score filter
\* of scan_for_violations, which are the ones inserted and returned.
C24_EmittedClearsFeeHurdle ==
  (ret # <<>> /\ pc \in {"check_subset", "check_threshold", "check_partition",
                         "check_implication"}) =>
    \A k \in DOMAIN ret[1].value :
      LET opp == ret[1].value[k]
          fees == [i \in DOMAIN opp.legs |-> taker_fee(1, opp.legs[i].price)]
      IN min_score_ok(opp) =>
           /\ opp.magnitude > fee_safety_multiplier * SumSeq(fees)
           /\ \A i \in DOMAIN fees : opp.magnitude > 2 * fees[i]

\* C25: a market whose relevant price is missing or outside the open
\* interval (0, 1) is dropped: no opportunity the detector emits (and
\* persists, its score passing the min_score filter) contains a leg whose
\* target price is <= 0 or >= 1, so that the executor is never handed such
\* a leg.
C25_NoLegPricedOutsideUnitInterval ==
  (ret # <<>> /\ pc \in {"check_subset", "check_threshold", "check_partition",
                         "check_implication"}) =>
    \A k \in DOMAIN ret[1].value :
      LET opp == ret[1].value[k]
      IN min_score_ok(opp) =>
           \A i \in DOMAIN opp.legs :
             opp.legs[i].price > 0 /\ opp.legs[i].price < 100

\* C26: after any sequence of discover_relationships runs no two rows of
\* relationships have the same (type, sorted tickers) key; and when a batch
\* has been stored, every proposal of it has exactly one row, the rows that
\* existed before are still there with their ids and keys, the number of
\* rows has grown by the number of keys that did not exist, and the row of
\* each proposal has last_validated refreshed to the time of the run and the
\* confidence of the last proposal with its key.
C26_KeyUnique ==
  \A i, j \in DOMAIN relationships :
    (/\ relationships[i].type = relationships[j].type
     /\ sorted(relationships[i].tickers) = sorted(relationships[j].tickers)) => i = j

C26_DedupKeyUniqueAndRefreshed ==
  /\ []C26_KeyUnique
  /\ [][ submitted' = submitted + 1 =>
           LET ps == arg'.proposals
               key(r) == <<r.type, sorted(r.tickers)>>
               Keys(rels) == { key(rels[i]) : i \in DOMAIN rels }
               new_keys == { key(ps[k]) : k \in DOMAIN ps } \ Keys(relationships)
           IN /\ Len(relationships') = Len(relationships) + Cardinality(new_keys)
              /\ \A i \in DOMAIN relationships :
                   /\ relationships'[i].id = relationships[i].id
                   /\ key(relationships'[i]) = key(relationships[i])
                   /\ relationships'[i].created_at = relationships[i].created_at
              /\ \A k \in DOMAIN ps :
                   \E i \in DOMAIN relationships' :
                     /\ key(relationships'[i]) = key(ps[k])
                     /\ relationships'[i].last_validated = clock
                     /\ LET last == CHOOSE m \in DOMAIN ps :
                                      /\ key(ps[m]) = key(ps[k])
                                      /\ \A n \in DOMAIN ps : key(ps[n]) = key(ps[k]) => n <= m
                        IN relationships'[i].confidence = ps[last].confidence ]_vars

\* a row proposed again in a later run, with its tickers in another order:
\* refreshed, beside a second row
C26_Witness ==
  /\ mpc = "idle"
  /\ Len(relationships) = 2
  /\ arg # <<>>
  /\ \E i \in DOMAIN relationships :
       /\ relationships[i].last_validated > relationships[i].created_at
       /\ \E k \in DOMAIN arg.proposals :
            /\ arg.proposals[k].type = relationships[i].type
            /\ sorted(arg.proposals[k].tickers) = relationships[i].tickers
            /\ arg.proposals[k].tickers # relationships[i].tickers

\* C27: every SUBSET, THRESHOLD and IMPLICATION row the mapper inserts
\* keeps the ticker order of the proposal it was inserted for ([subset,
\* superset], ascending thresholds, [if, then]), whatever the lexical order
\* of the ticker strings, so that tickers[0] and tickers[1] have the roles
\* the oracle proposed.
C27_StoredTickersKeepProposedOrder ==
  [][ submitted' = submitted + 1 =>
        \A i \in DOMAIN relationships' :
          (i > Len(relationships)
           /\ relationships'[i].type \in {"SUBSET", "THRESHOLD", "IMPLICATION"}) =>
            \E k \in DOMAIN arg'.proposals :
              /\ arg'.proposals[k].type = relationships'[i].type
              /\ arg'.proposals[k].tickers = relationships'[i].tickers ]_vars

\* C29: a failure of the oracle call for one batch drops only that batch:
\* discover_relationships does not raise, and it returns only when every
\* batch of the pass has been submitted.
C29_OracleFailureDropsOnlyBatch ==
  /\ mpc # "raised"
  /\ (mpc = "idle" => batches = 0)

\* C28: after cleanup_stale_relationships() completes, a row of
\* relationships has been deleted if and only if none of its tickers has a
\* market row with an open status ("open" or "active"); every relationship
\* with at least one open market is left unchanged, and the number of
\* deleted rows is returned.
C28_CleanupDeletesExactlyStale ==
  (pc = "cleanup_stale_relationships" /\ ret # <<>> /\ ~ret[1].raised) =>
    LET open_market(t) == markets[t] \in {"open", "active"}
        stale(row) == \A i \in DOMAIN row.tickers : ~open_market(row.tickers[i])
        kept == { relationships[i] : i \in DOMAIN relationships }
    IN /\ \A i \in DOMAIN arg : stale(arg[i]) <=> arg[i] \notin kept
       /\ \A r \in kept : \E i \in DOMAIN arg : arg[i] = r
       /\ Len(relationships) = Cardinality(kept)
       /\ ret[1].value = Len(arg) - Len(relationships)

\* a sweep that deleted one of two relationships: the stale one shares a
\* ticker without a market row with a relationship kept for its other ticker
C28_Witness ==
  /\ pc = "cleanup_stale_relationships" /\ ret # <<>> /\ ~ret[1].raised
  /\ Len(arg) = 2
  /\ Len(relationships) = 1
  /\ markets["A"] = "closed" /\ markets["B"] = "none" /\ markets["C"] = "active"

\* C30: when a page fetch fails during an ingestion cycle, the markets of
\* the pages fetched before the failure have been upserted and are in the
\* table markets after the abort; and when a batch fails, the markets of the
\* batches upserted before it are in the table after the abort.
C30_PartialProgressPreserved ==
  [][ (ipc' = "raised" /\ ipc # "raised") =>
        /\ \A i \in DOMAIN fetched : markets'[fetched[i].ticker] = fetched[i].status
        /\ \A i \in DOMAIN txn : markets'[txn[i].ticker] = txn[i].status ]_vars

\* C31: with the refresher and a reader interleaved arbitrarily, every map
\* snapshot() returns is one of the maps _markets has referred to, whole:
\* the one published before a swap or the one published after it, never a
\* mix of the entries of two refreshes and never a dict still being built.
C31_SnapshotIsPublishedMap ==
  rdr = "returned" =>
    /\ snap \in published
    /\ \A t, u \in MarketTickers : (snap[t] # 0 /\ snap[u] # 0) => snap[t] = snap[u]
    /\ snap = heap[snap_src]

\* a snapshot of the map of the second refresh returned while the third
\* refresh has written a page into its own dict
C31_Witness ==
  /\ rdr = "returned"
  /\ snap = [t \in MarketTickers |-> 2]
  /\ refreshes = 3
  /\ cpc = "get_markets"
  /\ heap[new_markets]["A"] = 3

\* C35: every map the refresher publishes holds the markets of all pages of
\* the pagination run that built it; a refresh in which a page fetch failed
\* does not replace the published map.
C35_PublishedSnapshotComplete ==
  [][ cache_markets' # cache_markets =>
        \A p \in DOMAIN exchange : \A k \in DOMAIN exchange[p] :
          heap[cache_markets'][exchange[p][k]] = refreshes ]_vars

\* C32: taker_fee(C, P) is the least whole number of cents not below
\* 7 * C * P * (1 - P) for C >= 1 and 0 < P < 1, and 0 for C <= 0, P <= 0 or
\* P >= 1; hence taker_fee(C, P) = taker_fee(C, 1 - P), taker_fee(1, 0.50) is
\* 2 cents, taker_fee(100, 0.50) is 175 cents and taker_fee(1, 0.05) is 1 cent.
C32_TakerFeeIsCeiling ==
  (pc = "taker_fee" /\ ret # <<>>) =>
    LET c == arg.count
        p == arg.price
        fee == ret[1]
    IN /\ (c >= 1 /\ p > 0 /\ p < 100) =>
            /\ fee * 10000 >= 7 * c * p * (100 - p)
            /\ (fee - 1) * 10000 < 7 * c * p * (100 - p)
            /\ fee = taker_fee(c, 100 - p)
       /\ (c <= 0 \/ p <= 0 \/ p >= 100) => fee = 0
       /\ (c = 1 /\ p = 50) => fee = 2
       /\ (c = 100 /\ p = 50) => fee = 175
       /\ (c = 1 /\ p = 5) => fee = 1

\* the fee of 3 contracts at 29 cents: 4.3239 cents, charged as 5
C32_Witness ==
  /\ pc = "taker_fee"
  /\ arg = [count |-> 3, price |-> 29]
  /\ ret = <<5>>

\* C33: after a signal is received while the loop runs, the tick in
\* progress goes through all its steps, no further tick starts, and
\* shutdown runs exactly once: one shutdown notification is sent and the
\* pool is closed, after which the process exits.
C33_GracefulShutdown ==
  /\ [](notifications <= 1)
  /\ [](tpc = "exited" => (signalled /\ notifications = 1 /\ pool = "closed"))
  /\ [](pool = "closed" => tpc = "exited")
  /\ [][signalled => tpc' # "ingest"]_vars
  /\ [][(signalled /\ tpc \notin {"sleep", "shutdown", "close_pool", "exited"})
          => tpc' \notin {"sleep", "shutdown", "close_pool", "exited"} \/ tpc = "summary"]_vars
  /\ (signalled ~> tpc = "exited")

\* the process has exited after a tick that ran the scan
C33_Witness ==
  /\ tpc = "exited"
  /\ signalled
  /\ "scan" \in ran
  /\ notifications = 1
  /\ pool = "closed"

\* C34: a call of _request makes at most three attempts, each after one
\* token of the rate limiter, and ends either by returning the parsed
\* response of a successful attempt or, when all three attempts failed, by
\* raising; it never returns a value that is not a response.
C34_RequestReturnsResponseOrRaises ==
  pc = "_request" =>
    /\ attempt <= 3
    /\ tokens = attempt
    /\ ret # <<>> =>
         \/ /\ ~ret[1].raised
            /\ arg[attempt] \in {"ok", "empty"}
            /\ ret[1].value \in {"response", "{}"}
         \/ /\ ret[1].raised
            /\ attempt = 3
            /\ \A n \in 1..3 : arg[n] \notin {"ok", "empty"}

\* C36: a live call of _place_leg creates at most one order on the
\* exchange, also when the POST is sent again after a timeout or an error
\* reply that came after the exchange had taken the order.
C36_AtMostOneOrderPerLeg ==
  pc = "place_order" => accepted <= 1

\* C37: when a live two-leg execution has ended because leg 1 was not
\* observed filled, so that leg 2 was never placed, the leg-1 order holds no
\* filled contracts on the exchange, whatever the interleaving of the
\* exchange's matching with the polls and the cancel.
C37_NoUnhedgedLeg1 ==
  (TwoLegCall /\ ~dry_run /\ LegsDone /\ Len(orders) = 1 /\ filled_count = 0)
    => Order(orders[1]).filled_count = 0

\* C38: the number of executions started between two consecutive portfolio
\* syncs never exceeds max_open_positions minus the open_positions value of
\* the earlier sync.
C38_PositionCapAcrossCycle ==
  synced <= max_open_positions => started <= max_open_positions - synced

\* C39: after a market has stopped being open on the exchange, the next
\* ingestion cycle that succeeds leaves its row in markets with a status
\* that is not open, so that the row no longer keeps a relationship active
\* or safe from cleanup_stale_relationships.
C39_ClosedMarketRowUpdated ==
  [][ (ipc = "upsert" /\ ipc' = "idle") =>
        \A t \in MarketTickers :
          (\A i \in DOMAIN txn : txn[i].ticker # t) => markets'[t] \notin {"open", "active"} ]_vars

\* C40: the last-run time of a periodic task is advanced only when the
\* task has completed without raising (for the detection block: when
\* scan_for_violations has returned); a task that ran successfully at time
\* t does not run again before t + its period; and a task whose run raised
\* (ingestion, a relationship pass, detection) runs again in the next tick.
C40_TimerAdvancedOnlyOnSuccess ==
  [][ \A t \in Timers :
        /\ last_run'[t] # last_run[t] => (task_outcome'[t] \in {"ok", "raised_after"} /\ last_run'[t] = tick_now')
        /\ task_outcome'[t] \in {"ok", "raised_after"} => last_run'[t] = tick_now'
        /\ task_outcome'[t] # "none" => tick_now' >= last_run[t] + Period[t]
        /\ task_outcome[t] = "raised" => (task_outcome'[t] # "none" /\ last_run[t] <= tick_now - Period[t])
        /\ task_outcome'[t] = "raised" => last_run'[t] = last_run[t] ]_vars

\* the second tick: the ingestion that succeeded a second ago is not run,
\* the detection that raised a second ago has run and raised again
C40_Witness ==
  /\ tick_now = 2
  /\ task_outcome["ingest"] = "none"
  /\ last_run["ingest"] = 1
  /\ task_outcome["scan"] = "raised"
  /\ last_run["scan"] = DatetimeMin

====
